---- MODULE Spec2Model ----
(***************************************************************************)
(* A model of the real-time event-distribution core of ai-pm-backend:      *)
(*   - CircuitBreaker          (app/utils/error_handler.py)                *)
(*   - BroadcastService        (app/services/broadcast_service.py)         *)
(*   - the part of ConnectionManager / WebSocketService the broadcast      *)
(*     engine reads                                                        *)
(* Two state machines share this module.  SpecCB runs one circuit breaker  *)
(* (any of the four that ErrorHandler creates); Spec and SpecPrio run the  *)
(* broadcast engine.  Variables a specification does not use keep their    *)
(* initial value.                                                          *)
(***************************************************************************)
EXTENDS Integers, Sequences, FiniteSets, TLC

VARIABLES
    \* ---- CircuitBreaker fields (error_handler.py:66-73)
    cb_name,            \* key of the breaker in ErrorHandler.circuit_breakers
    cb_state,           \* "closed" | "open" | "half_open"
    failure_count,
    success_count,
    last_failure_time,  \* NoneTime, or the clock value of the last failure
    now,                \* datetime.utcnow(), in seconds
    cb_pc,              \* "idle", or "calling" while func runs inside call()
    \* ---- history of the breaker (read by the properties only)
    cb_last,            \* what the last call()/reset did
    consec_failures,    \* failed calls since the last successful call / reset
    ho_successes,       \* successful calls in a row since the breaker went
                        \* half-open or since the last failed call
    ho_ok_total,        \* successful calls since the breaker went half-open
    \* ---- ConnectionManager (connection_manager.py:121-124)
    connections,            \* connection_id -> [user_id, project_ids]
    user_connections,       \* user_id -> set of connection ids
    project_connections,    \* project_id -> set of connection ids
    \* ---- the rest of ConnectionManager (connection_manager.py:117-134)
    conn_meta,              \* connection_id -> [sid, ip_address, last_activity,
                            \*                   is_authenticated]
    sid_to_connection,      \* sid -> connection_id
    connections_per_ip,     \* ip_address -> count (no entry: no key)
    total_connections,
    active_connections,
    max_connections,
    connection_timeout,
    message_rates,          \* connection_id -> deque of timestamps
    rate_limit_messages,
    \* ---- history of the ConnectionManager (read by the properties only)
    cm_last,                \* the last call made and what it returned
    rate_log,               \* connection_id -> the timestamps of all its
                            \* check_rate_limit calls of the last 60 seconds
    \* ---- BroadcastService (broadcast_service.py:73-92)
    msgs,                   \* the BroadcastMessage objects, in creation order
    high_priority_queue,
    normal_priority_queue,
    low_priority_queue,
    active_broadcasts,      \* the messages held by the active_broadcasts map
    retry_timers,           \* the pending _retry_broadcast tasks
    broadcast_task,         \* "none" before start(), then "running", then
                            \* "cancelled" after stop() ("failed": ended by an
                            \* exception)
    rate_queue_len,         \* len(broadcast_rates[current minute])
    total_broadcasts,
    \* ---- position of _broadcast_loop / _process_broadcast
    bc_pc,                  \* "idle", or "sending" while sio.emit is awaited
    cur_msg,                \* the message being processed (0: none)
    cur_idx,                \* index in target_ids of the emit being awaited
    \* ---- history of the dispatch (read by the properties only)
    cur_emit,               \* how the awaited sio.emit will end: "ok" | "raise"
                            \* ("none" when no emit is awaited)
    pass_absent,            \* the pass in progress has met an absent target
    pass_raised,            \* an sio.emit has raised in the pass in progress
    logging,                \* whether the order of enqueues and pops is recorded
    waiting,                \* the queued messages, in the order of their enqueue
    bc_last,                \* the last broadcast_* call made and what it did
    \* ---- ErrorHandler (error_handler.py:132)
    error_history,          \* the ErrorInfo records, each one the number of its
                            \* error in the order of the handle_error calls
    \* ---- position and history of the handle_error calls
    eh_count,               \* the number of handle_error calls made so far
    eh_pending,             \* the calls suspended in their recovery strategy
    eh_last,                \* the last handle_error call that ended
    \* ---- EventManager (websocket_events.py:165)
    subscriptions,          \* the dict connection_id -> list of subscriptions,
                            \* as the sequence of its items
    \* ---- history of the get_subscribers calls
    ev_last,                \* the last get_subscribers call and its result
    event_history,          \* EventManager.event_history
    evh_last,               \* the get_event_history call just made and its
                            \* result, until the history changes
    \* ---- SystemStatus (status_service.py:17-35)
    components,             \* component -> healthy
    status_healthy,         \* SystemStatus.healthy
    alerts,                 \* the alert list: [type, severity] records
    \* ---- history of the StatusService calls
    st_last                 \* the last StatusService operation and its result

cbVars == <<cb_name, cb_state, failure_count, success_count, last_failure_time,
            now, cb_pc, cb_last, consec_failures, ho_successes, ho_ok_total>>

regVars == <<connections, user_connections, project_connections>>

cmVars == <<conn_meta, sid_to_connection, connections_per_ip, total_connections,
            active_connections, max_connections, connection_timeout,
            message_rates, rate_limit_messages, cm_last, rate_log>>

bcVars == <<msgs, high_priority_queue, normal_priority_queue, low_priority_queue,
            active_broadcasts, retry_timers, broadcast_task, rate_queue_len,
            bc_pc, cur_msg, cur_idx, cur_emit, pass_absent, pass_raised,
            logging, waiting, total_broadcasts, bc_last>>

ehVars == <<error_history, eh_count, eh_pending, eh_last>>

evVars == <<subscriptions, ev_last, event_history, evh_last>>

stVars == <<components, status_healthy, alerts, st_last>>

vars == <<cbVars, regVars, cmVars, bcVars, ehVars, evVars, stVars>>

(***************************************************************************)
(* Bounds of the model                                                     *)
(***************************************************************************)
MaxTicks == 6           \* clock steps explored
TickSeconds == 15       \* seconds per clock step
MaxFailureCount == 12   \* call() is not explored past this failure_count
MaxConns == 2           \* connection ids
MaxTargets == 2         \* length of an explicit connection-id list
MaxPrioMessages == 3    \* broadcast messages created (SpecPrio)
MaxIdleJumps == 1       \* jumps of the clock by the idle timeout (SpecReg)
MaxLimitAdds == 12      \* the same, where the ceilings are reached (SpecLimit)
MaxAdds == 3            \* add_connection is not explored past this total_connections
MaxSweepTicks == 6      \* clock steps of one sweep interval each (SpecSweep)
MaxRateTicks == 2       \* clock steps of one rate window each (SpecRate)
MaxExtraCalls == 1      \* check_rate_limit calls explored past the ceiling of a window
MaxProducerMsgs == 2    \* broadcast messages created (SpecProducers)
MaxExtraPops == 2       \* messages popped past max_broadcasts_per_minute (SpecFlood)
MaxReapMsgs == 2        \* broadcast messages created (SpecReap)
MaxReapTicks == 3       \* clock steps explored (SpecReap)
ReapTickSeconds == 1800 \* seconds per clock step (SpecReap)
MaxExtraErrors == 2     \* handle_error calls explored past max_history_size
MaxVariedErrors == 1    \* only the first errors are of any category and outcome
MaxExtraEvents == 2     \* add_to_history calls explored past the capacity
MaxVariedEvents == 1    \* only the first events added are of either kind
MaxAlerts == 2          \* alerts raised
MaxStatusBroadcasts == 1 \* ticks of the status broadcast loop
MaxStatusErrors == 1    \* handle_error calls next to the status service
MaxSubscriptions == 1   \* EventSubscription objects held at a time
MaxLoopMsgs == 2        \* broadcast messages created (SpecLoop)
MaxRetryMsgs == 2       \* broadcast messages created (SpecRetry)
MaxRetryTicks == 1      \* clock steps explored (SpecRetry)
MaxBreakerErrors == 2   \* handle_error calls next to a breaker (SpecBreaker)

(***************************************************************************)
(* CircuitBreaker                                                          *)
(***************************************************************************)
NoneTime == -1

BreakerNames == {"ai_service", "redis_service", "websocket_service", "broadcast_service"}

failure_threshold(n) ==
    CASE n = "ai_service"        -> 3
      [] n = "redis_service"     -> 5
      [] n = "websocket_service" -> 10
      [] n = "broadcast_service" -> 5

recovery_timeout(n) ==
    CASE n = "ai_service"        -> 30
      [] n = "redis_service"     -> 60
      [] n = "websocket_service" -> 15
      [] n = "broadcast_service" -> 30

SuccessThreshold == 3

\* a variant of _should_attempt_reset that compares with > instead of >=
ShouldAttemptResetStrict ==
    \/ last_failure_time = NoneTime
    \/ now - last_failure_time > recovery_timeout(cb_name)

\* CircuitBreaker._should_attempt_reset
should_attempt_reset ==
    \/ last_failure_time = NoneTime
    \/ now - last_failure_time >= recovery_timeout(cb_name)

\* a variant of _on_success that does not reset failure_count
OnSuccessKeepFailures(st, fc, sc) ==
    IF st = "half_open"
    THEN IF sc + 1 >= SuccessThreshold
         THEN <<"closed", 0, sc + 1, NoneTime>>
         ELSE <<"half_open", fc, sc + 1, NoneTime>>
    ELSE <<st, fc, sc, NoneTime>>

\* a variant of _on_success that closes at the first half-open success
OnSuccessCloseAtOnce(st, fc, sc) ==
    IF st = "half_open"
    THEN <<"closed", 0, sc + 1, NoneTime>>
    ELSE <<st, 0, sc, NoneTime>>

\* CircuitBreaker._on_success: the new <<state, failure_count, success_count,
\* last_failure_time>>
on_success(st, fc, sc) ==
    IF st = "half_open"
    THEN IF sc + 1 >= SuccessThreshold
         THEN <<"closed", 0, sc + 1, NoneTime>>
         ELSE <<"half_open", 0, sc + 1, NoneTime>>
    ELSE <<st, 0, sc, NoneTime>>

\* a variant of _on_failure that opens the breaker one failure early
OnFailureOpensEarly(st, fc, sc) ==
    IF fc + 2 >= failure_threshold(cb_name)
    THEN <<"open", fc + 1, sc, now>>
    ELSE <<st, fc + 1, sc, now>>

\* CircuitBreaker._on_failure: the new <<state, failure_count, success_count,
\* last_failure_time>>
on_failure(st, fc, sc) ==
    IF fc + 1 >= failure_threshold(cb_name)
    THEN <<"open", fc + 1, sc, now>>
    ELSE <<st, fc + 1, sc, now>>

CBInit ==
    /\ cb_name \in BreakerNames
    /\ cb_state = "closed"
    /\ failure_count = 0
    /\ success_count = 0
    /\ last_failure_time = NoneTime
    /\ now = 0
    /\ cb_pc = "idle"
    /\ cb_last = "none"
    /\ consec_failures = 0
    /\ ho_successes = 0
    /\ ho_ok_total = 0

\* call(), up to the invocation of func: the gate of lines 77-82.
CallEnter ==
    /\ cb_pc = "idle"
    /\ failure_count < MaxFailureCount
    /\ IF cb_state = "open"
       THEN IF should_attempt_reset
            THEN /\ cb_state' = "half_open"
                 /\ success_count' = 0
                 /\ cb_pc' = "calling"
                 /\ cb_last' = "invoke"
                 /\ ho_successes' = 0
                 /\ ho_ok_total' = 0
            ELSE \* raise Exception("Circuit breaker is OPEN ..."): func not invoked
                 /\ cb_last' = "fast_fail"
                 /\ UNCHANGED <<cb_state, success_count, cb_pc, ho_successes, ho_ok_total>>
       ELSE /\ cb_pc' = "calling"
            /\ cb_last' = "invoke"
            /\ UNCHANGED <<cb_state, success_count, ho_successes, ho_ok_total>>
    /\ UNCHANGED <<cb_name, failure_count, last_failure_time, now, consec_failures>>
    /\ UNCHANGED <<regVars, cmVars, bcVars, ehVars, evVars, stVars>>

\* func returned: lines 85-87
CallSuccess ==
    /\ cb_pc = "calling"
    /\ LET r == on_success(cb_state, failure_count, success_count)
       IN /\ cb_state' = r[1]
          /\ failure_count' = r[2]
          /\ success_count' = r[3]
          /\ last_failure_time' = r[4]
    /\ cb_pc' = "idle"
    /\ cb_last' = "ok"
    /\ consec_failures' = 0
    /\ ho_successes' = IF cb_state = "half_open" THEN ho_successes + 1 ELSE 0
    /\ ho_ok_total' = IF cb_state = "half_open" THEN ho_ok_total + 1 ELSE 0
    /\ UNCHANGED <<cb_name, now>>
    /\ UNCHANGED <<regVars, cmVars, bcVars, ehVars, evVars, stVars>>

\* func raised expected_exception: lines 88-90
CallFailure ==
    /\ cb_pc = "calling"
    /\ LET r == on_failure(cb_state, failure_count, success_count)
       IN /\ cb_state' = r[1]
          /\ failure_count' = r[2]
          /\ success_count' = r[3]
          /\ last_failure_time' = r[4]
    /\ cb_pc' = "idle"
    /\ cb_last' = "fail"
    /\ consec_failures' = consec_failures + 1
    /\ ho_successes' = 0
    /\ UNCHANGED <<cb_name, now, ho_ok_total>>
    /\ UNCHANGED <<regVars, cmVars, bcVars, ehVars, evVars, stVars>>

\* ErrorHandler.reset_circuit_breaker
ResetCircuitBreaker ==
    /\ cb_pc = "idle"
    /\ cb_state' = "closed"
    /\ failure_count' = 0
    /\ success_count' = 0
    /\ last_failure_time' = NoneTime
    /\ cb_last' = "reset"
    /\ consec_failures' = 0
    /\ ho_successes' = 0
    /\ ho_ok_total' = 0
    /\ UNCHANGED <<cb_name, now, cb_pc>>
    /\ UNCHANGED <<regVars, cmVars, bcVars, ehVars, evVars, stVars>>

\* the clock advances
Tick ==
    /\ now < MaxTicks * TickSeconds
    /\ now' = now + TickSeconds
    /\ UNCHANGED <<cb_name, cb_state, failure_count, success_count,
                   last_failure_time, cb_pc, cb_last, consec_failures, ho_successes,
                   ho_ok_total>>
    /\ UNCHANGED <<regVars, cmVars, bcVars, ehVars, evVars, stVars>>

(***************************************************************************)
(* ErrorHandler                                                            *)
(***************************************************************************)
max_history_size == 1000

EHInit ==
    /\ error_history = <<>>
    /\ eh_count = 0
    /\ eh_pending = {}
    /\ eh_last = [id |-> 0, outcome |-> "none", returned |-> FALSE]

\* ErrorHandler._initialize_recovery_strategies, for the categories explored
recovery_strategies(category) ==
    CASE category = "websocket"  -> "retry"
      [] category = "ai_service" -> "circuit_breaker"
      [] category = "validation" -> "notification_only"
      [] category = "redis"      -> "fallback"

\* a variant of _store_error that keeps the oldest records
StoreErrorKeepsOldest(h, e) ==
    LET h2 == Append(h, e)
    IN IF Len(h2) > max_history_size THEN SubSeq(h2, 1, max_history_size) ELSE h2

\* ErrorHandler._store_error: the history after the append and the slice
store_error(h, e) ==
    LET h2 == Append(h, e)
    IN IF Len(h2) > max_history_size
       THEN SubSeq(h2, Len(h2) - max_history_size + 1, Len(h2))
       ELSE h2

\* whether handle_error raises when its recovery strategy or a callback
\* raises: both run inside try/except Exception (lines 223-248, 318-324)
handle_error_raises(outcome) == FALSE

\* _execute_recovery_strategy suspends the call only in _retry_operation
\* (asyncio.sleep, line 271)
Suspends(category) == recovery_strategies(category) = "retry"

\* the record of a handle_error call that ended
Handled(id, outcome) ==
    eh_last' = [id |-> id, outcome |-> outcome,
                returned |-> ~handle_error_raises(outcome)]

\* ErrorHandler.handle_error from its first line to its first suspension, or
\* to its end if it is not suspended; outcome tells whether the recovery
\* strategy or a callback raises; service_name is the breaker named in the
\* call ("none": no name given)
handle_error(category, service_name, outcome) ==
    LET id == eh_count + 1
    IN /\ eh_count' = id
       /\ error_history' = store_error(error_history,
                                       [id |-> id, category |-> category,
                                        timestamp |-> now])
       /\ IF /\ recovery_strategies(category) = "circuit_breaker"
             /\ service_name = cb_name
             /\ outcome # "recovery_raises"
          THEN \* lines 226-232
               /\ failure_count' = failure_count + 1
               /\ last_failure_time' = now
               /\ cb_state' = IF failure_count + 1 >= failure_threshold(cb_name)
                              THEN "open" ELSE cb_state
          ELSE UNCHANGED <<failure_count, last_failure_time, cb_state>>
       /\ IF Suspends(category)
          THEN /\ eh_pending' = eh_pending \cup {[id |-> id, outcome |-> outcome]}
               /\ UNCHANGED eh_last
          ELSE /\ Handled(id, outcome)
               /\ UNCHANGED eh_pending
       /\ UNCHANGED <<cb_name, success_count, now, cb_pc, cb_last, consec_failures,
                      ho_successes, ho_ok_total>>
       /\ UNCHANGED <<regVars, cmVars, bcVars, evVars, stVars>>

\* a suspended handle_error call goes on to its end (lines 198-203)
handle_error_resumes(call) ==
    /\ call \in eh_pending
    /\ eh_pending' = eh_pending \ {call}
    /\ Handled(call.id, call.outcome)
    /\ UNCHANGED <<error_history, eh_count>>
    /\ UNCHANGED <<cbVars, regVars, cmVars, bcVars, evVars, stVars>>

(***************************************************************************)
(* EventSubscription and EventManager (websocket_events.py)                *)
(***************************************************************************)
NoneValue == "none"     \* Python's None, for an Optional[str] field

NoHistoryCall ==
    [called |-> FALSE, event_type |-> NoneValue, project_id |-> NoneValue,
     limit |-> 0, returned |-> <<>>]

EVInit ==
    /\ subscriptions = <<>>
    /\ ev_last = [called |-> FALSE, event |-> NoneValue, subscribers |-> <<>>]
    /\ event_history = <<>>
    /\ evh_last = NoHistoryCall

\* EventSubscription.matches_event.  event_types and project_ids are lists
\* that are only tested for emptiness and membership: sets here.  filters
\* and event.data are dicts: functions here (no filters: the empty function).
matches_event(self, event) ==
    IF event.event_type \notin self.event_types THEN FALSE
    ELSE IF self.project_ids # {} /\ event.project_id \notin self.project_ids
         THEN FALSE
    ELSE IF self.user_id # NoneValue /\ event.user_id # self.user_id THEN FALSE
    ELSE IF \E key \in DOMAIN self.filters :
               key \in DOMAIN event.data /\ event.data[key] # self.filters[key]
         THEN FALSE
    ELSE TRUE

\* the keys of the subscriptions dict, in the order of their insertion
SubscribedIds == {subscriptions[i].connection_id : i \in DOMAIN subscriptions}

\* the number of EventSubscription objects held
SubscriptionCount ==
    LET RECURSIVE Sum(_)
        Sum(i) == IF i = 0 THEN 0 ELSE Len(subscriptions[i].subs) + Sum(i - 1)
    IN Sum(Len(subscriptions))

\* EventManager.subscribe
subscribe(connection_id, subscription) ==
    /\ subscriptions' =
         IF connection_id \notin SubscribedIds
         THEN Append(subscriptions,
                     [connection_id |-> connection_id, subs |-> <<subscription>>])
         ELSE [i \in DOMAIN subscriptions |->
                 IF subscriptions[i].connection_id = connection_id
                 THEN [subscriptions[i] EXCEPT !.subs = Append(@, subscription)]
                 ELSE subscriptions[i]]
    /\ UNCHANGED <<ev_last, event_history, evh_last>>
    /\ UNCHANGED <<cbVars, regVars, cmVars, bcVars, ehVars, stVars>>

\* EventManager.unsubscribe(connection_id), event_types not given
unsubscribe(connection_id) ==
    /\ subscriptions' =
         IF connection_id \notin SubscribedIds
         THEN subscriptions
         ELSE SelectSeq(subscriptions,
                        LAMBDA e : e.connection_id # connection_id)
    /\ UNCHANGED <<ev_last, event_history, evh_last>>
    /\ UNCHANGED <<cbVars, regVars, cmVars, bcVars, ehVars, stVars>>

\* the list EventManager.get_subscribers returns
Subscribers(event) ==
    LET hit == SelectSeq(subscriptions,
                  LAMBDA e : \E i \in DOMAIN e.subs : matches_event(e.subs[i], event))
    IN [i \in DOMAIN hit |-> hit[i].connection_id]

\* EventManager.get_subscribers
get_subscribers(event) ==
    /\ ev_last' = [called |-> TRUE, event |-> event,
                   subscribers |-> Subscribers(event)]
    /\ UNCHANGED <<subscriptions, event_history, evh_last>>
    /\ UNCHANGED <<cbVars, regVars, cmVars, bcVars, ehVars, stVars>>

\* EventManager.max_history_size (the capacity of event_history)
event_max_history_size == 1000

\* the number add_to_history gives its next event: events are told apart by
\* the order of their arrival (their timestamp)
NextEventId ==
    IF event_history = <<>> THEN 1 ELSE event_history[Len(event_history)].id + 1

\* EventManager.add_to_history: the history after the append and the slice
HistoryAfter(h, event_type, project_id) ==
    LET e  == [id |-> NextEventId, event_type |-> event_type,
               project_id |-> project_id]
        h2 == Append(h, e)
    IN IF Len(h2) > event_max_history_size
       THEN SubSeq(h2, Len(h2) - event_max_history_size + 1, Len(h2))
       ELSE h2

\* EventManager.add_to_history
add_to_history(event_type, project_id) ==
       /\ event_history' = HistoryAfter(event_history, event_type, project_id)
       /\ evh_last' = NoHistoryCall
       /\ UNCHANGED <<subscriptions, ev_last>>
       /\ UNCHANGED <<cbVars, regVars, cmVars, bcVars, ehVars, stVars>>

\* the Python slice s[-n:] for n >= 0: -0 is 0, so s[-0:] is the whole of s
LastSlice(s, n) ==
    IF n = 0 THEN s
    ELSE SubSeq(s, IF Len(s) > n THEN Len(s) - n + 1 ELSE 1, Len(s))

\* the Python slice s[::-1]
Reversed(s) == [i \in DOMAIN s |-> s[Len(s) + 1 - i]]

\* the list EventManager.get_event_history returns
EventHistory(event_type, project_id, limit) ==
    LET by_type == IF event_type # NoneValue
                   THEN SelectSeq(event_history, LAMBDA e : e.event_type = event_type)
                   ELSE event_history
        by_room == IF project_id # NoneValue
                   THEN SelectSeq(by_type, LAMBDA e : e.project_id = project_id)
                   ELSE by_type
    IN Reversed(LastSlice(by_room, limit))

\* EventManager.get_event_history
get_event_history(event_type, project_id, limit) ==
    /\ evh_last' = [called |-> TRUE, event_type |-> event_type,
                    project_id |-> project_id, limit |-> limit,
                    returned |-> EventHistory(event_type, project_id, limit)]
    /\ UNCHANGED <<subscriptions, ev_last, event_history>>
    /\ UNCHANGED <<cbVars, regVars, cmVars, bcVars, ehVars, stVars>>

(***************************************************************************)
(* ConnectionManager: the registry the broadcast engine resolves against   *)
(***************************************************************************)
ConnIds == 1..MaxConns
Projects == {"p1"}
Users == {"u1"}
NoUser == "none"

RegInit ==
    /\ connections = <<>>
    /\ user_connections = [u \in Users |-> {}]
    /\ project_connections = [p \in Projects |-> {}]

Registered == DOMAIN connections

\* ConnectionManager.get_connection
get_connection(c) == c \in Registered

\* ConnectionManager.get_project_connections / get_user_connections: the ids
\* of the returned ConnectionInfo list
get_project_connections(p) == {c \in project_connections[p] : c \in Registered}

get_user_connections(u) == {c \in user_connections[u] : c \in Registered}

\* ConnectionManager.add_connection, for an id that is not registered
AddConnection(c) ==
    /\ c \notin Registered
    /\ connections' = [x \in Registered \cup {c} |->
                         IF x = c THEN [user_id |-> NoUser, project_ids |-> {}]
                                  ELSE connections[x]]
    /\ UNCHANGED <<user_connections, project_connections>>

\* ConnectionManager.remove_connection
RemoveConnection(c) ==
    /\ c \in Registered
    /\ user_connections' =
         [u \in DOMAIN user_connections |-> IF connections[c].user_id = u
                          THEN user_connections[u] \ {c} ELSE user_connections[u]]
    /\ project_connections' =
         [p \in DOMAIN project_connections |-> IF p \in connections[c].project_ids
                             THEN project_connections[p] \ {c}
                             ELSE project_connections[p]]
    /\ connections' = [x \in Registered \ {c} |-> connections[x]]

\* ConnectionManager.authenticate_connection
AuthenticateConnection(c, u) ==
    /\ c \in Registered
    /\ connections' = [connections EXCEPT ![c].user_id = u]
    /\ user_connections' =
         [v \in DOMAIN user_connections |->
            LET old == IF connections[c].user_id = v
                       THEN user_connections[v] \ {c} ELSE user_connections[v]
            IN IF v = u THEN old \cup {c} ELSE old]
    /\ UNCHANGED project_connections

\* ConnectionManager.join_project
JoinProject(c, p) ==
    /\ c \in Registered
    /\ connections' = [connections EXCEPT ![c].project_ids = @ \cup {p}]
    /\ project_connections' = [project_connections EXCEPT ![p] = @ \cup {c}]
    /\ UNCHANGED user_connections

(***************************************************************************)
(* SystemStatus and StatusService (status_service.py)                      *)
(***************************************************************************)
AlertsMaxLen == 100
ConnectionCountWarning == 500
ConnectionCountCritical == 800
BroadcastAlerts == 10       \* the alerts a status update carries

\* SystemStatus.__init__
STInit ==
    /\ components = [c \in {"redis", "websocket", "ai_service", "chat_processor",
                            "context_engine"} |-> TRUE]
    /\ status_healthy = TRUE
    /\ alerts = <<>>
    /\ st_last = [op |-> "none"]

\* SystemStatus.add_alert: the alert list after the append and the slice
add_alert(al, alert) ==
    LET a2 == Append(al, alert)
    IN IF Len(a2) > AlertsMaxLen
       THEN SubSeq(a2, Len(a2) - AlertsMaxLen + 1, Len(a2))
       ELSE a2

\* SystemStatus.update_component_status: the component map and the alert
\* list after the call
update_component_status(st, component, healthy) ==
    [components |-> [c \in DOMAIN st.components \cup {component} |->
                        IF c = component THEN healthy ELSE st.components[c]],
     alerts |-> IF ~healthy
                THEN add_alert(st.alerts, [type |-> "component_failure",
                                           severity |-> "high"])
                ELSE st.alerts]

\* SystemStatus.get_health_summary, of the given components, flag and alerts
get_health_summary(comps, flag, al) ==
    LET ok == {c \in DOMAIN comps : comps[c]}
    IN [healthy |-> flag /\ Cardinality(ok) = Cardinality(DOMAIN comps),
        healthy_components |-> Cardinality(ok),
        total_components |-> Cardinality(DOMAIN comps),
        active_alerts |-> Cardinality({i \in DOMAIN al : al[i].severity = "high"}),
        total_alerts |-> Len(al)]

\* a call of system_status.update_component_status from outside the service
MarkComponent(component, healthy) ==
    LET st == update_component_status([components |-> components, alerts |-> alerts],
                                      component, healthy)
    IN /\ components' = st.components
       /\ alerts' = st.alerts
       /\ st_last' = [op |-> "mark", component |-> component, healthy |-> healthy,
                      health |-> get_health_summary(st.components, status_healthy,
                                                    st.alerts)]
       /\ UNCHANGED status_healthy
       /\ UNCHANGED <<cbVars, regVars, cmVars, bcVars, ehVars, evVars>>

\* StatusService._perform_health_checks, run by the health-check loop
\* (op = "periodic") or by force_health_check (op = "force"); the two
\* arguments are what _check_redis_health and _check_websocket_health
\* return.  Nothing in the try block raises: both checks catch their own
\* exceptions.
perform_health_checks(op, redis_healthy, websocket_healthy) ==
    LET st1 == update_component_status([components |-> components, alerts |-> alerts],
                                       "redis", redis_healthy)
        st2 == update_component_status(st1, "websocket", websocket_healthy)
        all_healthy == \A c \in DOMAIN st2.components : st2.components[c]
    IN /\ components' = st2.components
       /\ alerts' = st2.alerts
       /\ status_healthy' = all_healthy
       /\ st_last' = [op |-> op,
                      health |-> get_health_summary(st2.components, all_healthy,
                                                    st2.alerts)]
       /\ UNCHANGED <<cbVars, regVars, cmVars, bcVars, ehVars, evVars>>

\* StatusService._collect_metrics and _check_thresholds, for the metric
\* active_connections as the WebSocket service reports it; response times
\* and error rates stay under their thresholds
collect_metrics(connection_count) ==
    /\ alerts' =
         IF connection_count > ConnectionCountCritical
         THEN add_alert(alerts, [type |-> "scalability", severity |-> "critical"])
         ELSE IF connection_count > ConnectionCountWarning
         THEN add_alert(alerts, [type |-> "scalability", severity |-> "warning"])
         ELSE alerts
    /\ st_last' = [op |-> "metrics", connection_count |-> connection_count]
    /\ UNCHANGED <<components, status_healthy>>
    /\ UNCHANGED <<cbVars, regVars, cmVars, bcVars, ehVars, evVars>>

\* one tick of StatusService._status_broadcast_loop: _broadcast_status_update
\* calls WebSocketService.broadcast_system_event, which is
\* emit_event(event_type, data, project_id="system"): the event is added to
\* the event history and emitted to the connections of the project "system"
broadcast_status_update ==
    LET targets == get_project_connections("system")
    IN /\ event_history' = HistoryAfter(event_history, "system_status_update", "system")
       /\ evh_last' = NoHistoryCall
       /\ st_last' = [op |-> "broadcast",
                      emitted_to |-> targets,
                      health |-> get_health_summary(components, status_healthy, alerts),
                      alerts |-> LastSlice(alerts, BroadcastAlerts)]
       /\ UNCHANGED <<subscriptions, ev_last>>
       /\ UNCHANGED <<components, status_healthy, alerts>>
       /\ UNCHANGED <<cbVars, regVars, cmVars, bcVars, ehVars>>

(***************************************************************************)
(* ConnectionManager: the whole registry                                   *)
(***************************************************************************)
DefaultMaxConnections == 1000
DefaultConnectionTimeout == 300
DefaultRateLimitMessages == 100
MaxConnectionsPerIP == 10
MessageRatesMaxLen == 60
RateWindowSeconds == 60
CleanupIntervalSeconds == 60
TestRateLimit == 3

EmptyMap == [x \in {} |-> 0]

MapPut(f, k, v) == [x \in DOMAIN f \cup {k} |-> IF x = k THEN v ELSE f[x]]

MapDel(f, k) == [x \in DOMAIN f \ {k} |-> f[x]]

\* ConnectionManager.__init__ with max_connections = n; rate_limit_messages
\* is the attribute of line 134, which the owner may set afterwards
CMInitWith(n, timeout, limit) ==
    /\ conn_meta = EmptyMap
    /\ sid_to_connection = EmptyMap
    /\ connections_per_ip = EmptyMap
    /\ total_connections = 0
    /\ active_connections = 0
    /\ max_connections = n
    /\ connection_timeout = timeout
    /\ message_rates = EmptyMap
    /\ rate_limit_messages = limit
    /\ cm_last = [op |-> "none", c |-> 0, arg |-> "none", ok |-> FALSE]
    /\ rate_log = EmptyMap

CMInit ==
    CMInitWith(DefaultMaxConnections, DefaultConnectionTimeout,
               DefaultRateLimitMessages)

\* defaultdict(int): the count read for an address
IpCount(counts, ip) == IF ip \in DOMAIN counts THEN counts[ip] ELSE 0

\* ConnectionInfo.__init__, the part kept in `connections`
FreshInfo == [user_id |-> NoUser, project_ids |-> {}]

Returned(op, c, arg, ok) == cm_last' = [op |-> op, c |-> c, arg |-> arg, ok |-> ok]

\* the successful end of add_connection (lines 169-182)
AddSucceeds(c, sid, ip) ==
    /\ connections' = MapPut(connections, c, FreshInfo)
    /\ conn_meta' = MapPut(conn_meta, c,
                           [sid |-> sid, ip_address |-> ip,
                            last_activity |-> now, is_authenticated |-> FALSE])
    /\ sid_to_connection' = MapPut(sid_to_connection, sid, c)
    /\ connections_per_ip' =
         MapPut(connections_per_ip, ip, IpCount(connections_per_ip, ip) + 1)
    /\ total_connections' = total_connections + 1
    /\ active_connections' = active_connections + 1
    /\ Returned("add", c, ip, TRUE)
    /\ UNCHANGED <<user_connections, project_connections>>

\* a variant of add_connection that admits one connection more than
\* max_connections
AddConnectionOffByOne(c, sid, ip) ==
    IF \/ Cardinality(Registered) > max_connections
       \/ IpCount(connections_per_ip, ip) >= MaxConnectionsPerIP
    THEN /\ Returned("add", c, ip, FALSE)
         /\ UNCHANGED <<regVars, conn_meta, sid_to_connection, connections_per_ip,
                        total_connections, active_connections>>
    ELSE AddSucceeds(c, sid, ip)

\* a variant of add_connection that counts the address before it tests the
\* per-address ceiling
AddConnectionCountsFirst(c, sid, ip) ==
    IF Cardinality(Registered) >= max_connections
    THEN /\ Returned("add", c, ip, FALSE)
         /\ UNCHANGED <<regVars, conn_meta, sid_to_connection, connections_per_ip,
                        total_connections, active_connections>>
    ELSE IF IpCount(connections_per_ip, ip) >= MaxConnectionsPerIP
    THEN /\ Returned("add", c, ip, FALSE)
         /\ connections_per_ip' =
              MapPut(connections_per_ip, ip, IpCount(connections_per_ip, ip) + 1)
         /\ UNCHANGED <<regVars, conn_meta, sid_to_connection,
                        total_connections, active_connections>>
    ELSE AddSucceeds(c, sid, ip)

\* ConnectionManager.add_connection
add_connection(c, sid, ip) ==
    IF \/ Cardinality(Registered) >= max_connections
       \/ IpCount(connections_per_ip, ip) >= MaxConnectionsPerIP
    THEN /\ Returned("add", c, ip, FALSE)
         /\ UNCHANGED <<regVars, conn_meta, sid_to_connection, connections_per_ip,
                        total_connections, active_connections>>
    ELSE AddSucceeds(c, sid, ip)

\* the registry as one record, and the body of remove_connection (lines
\* 196-217) for a registered connection c applied to it
RegistryState ==
    [connections |-> connections,
     user_connections |-> user_connections,
     project_connections |-> project_connections,
     conn_meta |-> conn_meta,
     sid_to_connection |-> sid_to_connection,
     connections_per_ip |-> connections_per_ip,
     active_connections |-> active_connections]

Removed(st, c) ==
    LET info == st.connections[c]
        meta == st.conn_meta[c]
        left == IpCount(st.connections_per_ip, meta.ip_address) - 1
    IN [connections |-> MapDel(st.connections, c),
        user_connections |->
          [u \in DOMAIN st.user_connections |->
             IF info.user_id = u THEN st.user_connections[u] \ {c}
             ELSE st.user_connections[u]],
        project_connections |->
          [p \in DOMAIN st.project_connections |->
             IF p \in info.project_ids THEN st.project_connections[p] \ {c}
             ELSE st.project_connections[p]],
        conn_meta |-> MapDel(st.conn_meta, c),
        sid_to_connection |-> MapDel(st.sid_to_connection, meta.sid),
        connections_per_ip |->
          IF left <= 0 THEN MapDel(st.connections_per_ip, meta.ip_address)
          ELSE MapPut(st.connections_per_ip, meta.ip_address, left),
        active_connections |-> st.active_connections - 1]

\* the registry becomes st
SetRegistry(st) ==
    /\ connections' = st.connections
    /\ user_connections' = st.user_connections
    /\ project_connections' = st.project_connections
    /\ conn_meta' = st.conn_meta
    /\ sid_to_connection' = st.sid_to_connection
    /\ connections_per_ip' = st.connections_per_ip
    /\ active_connections' = st.active_connections

\* ConnectionManager.remove_connection
remove_connection(c) ==
    IF c \notin Registered
    THEN /\ Returned("remove", c, "none", FALSE)
         /\ UNCHANGED <<regVars, conn_meta, sid_to_connection, connections_per_ip,
                        total_connections, active_connections>>
    ELSE /\ SetRegistry(Removed(RegistryState, c))
         /\ Returned("remove", c, "none", TRUE)
         /\ UNCHANGED total_connections

\* ConnectionManager.authenticate_connection
authenticate_connection(c, u) ==
    IF c \notin Registered
    THEN /\ Returned("authenticate", c, u, FALSE)
         /\ UNCHANGED <<regVars, conn_meta>>
    ELSE /\ AuthenticateConnection(c, u)
         /\ conn_meta' = [conn_meta EXCEPT ![c].is_authenticated = TRUE,
                                           ![c].last_activity = now]
         /\ Returned("authenticate", c, u, TRUE)

\* ConnectionManager.join_project
join_project(c, p) ==
    IF c \notin Registered
    THEN /\ Returned("join", c, p, FALSE)
         /\ UNCHANGED <<regVars, conn_meta>>
    ELSE /\ JoinProject(c, p)
         /\ conn_meta' = [conn_meta EXCEPT ![c].last_activity = now]
         /\ Returned("join", c, p, TRUE)

\* a variant of leave_project that leaves the room index alone
LeaveProjectKeepsIndex(c, p) ==
    IF c \notin Registered
    THEN /\ Returned("leave", c, p, FALSE)
         /\ UNCHANGED <<regVars, conn_meta>>
    ELSE /\ connections' = [connections EXCEPT ![c].project_ids = @ \ {p}]
         /\ conn_meta' = [conn_meta EXCEPT ![c].last_activity = now]
         /\ Returned("leave", c, p, TRUE)
         /\ UNCHANGED <<user_connections, project_connections>>

\* ConnectionManager.leave_project
leave_project(c, p) ==
    IF c \notin Registered
    THEN /\ Returned("leave", c, p, FALSE)
         /\ UNCHANGED <<regVars, conn_meta>>
    ELSE /\ connections' = [connections EXCEPT ![c].project_ids = @ \ {p}]
         /\ project_connections' = [project_connections EXCEPT ![p] = @ \ {c}]
         /\ conn_meta' = [conn_meta EXCEPT ![c].last_activity = now]
         /\ Returned("leave", c, p, TRUE)
         /\ UNCHANGED user_connections

\* defaultdict(lambda: deque(maxlen=60)): the deque read for a connection
RateQueue(c) == IF c \in DOMAIN message_rates THEN message_rates[c] ELSE <<>>

\* deque.append on a deque with maxlen: a full deque drops its leftmost item
RateAppend(q, x) ==
    IF Len(q) = MessageRatesMaxLen THEN Append(Tail(q), x) ELSE Append(q, x)

\* the loop of lines 295-296: popleft while the head is older than the cutoff
RECURSIVE PopOld(_, _)
PopOld(q, cutoff) ==
    IF q # <<>> /\ Head(q) < cutoff THEN PopOld(Tail(q), cutoff) ELSE q

\* the deque without the loop of lines 295-296
RateQueueKeepsOld(c) == RateAppend(RateQueue(c), now)

\* the deque of a connection after lines 288-296
RateQueueAfter(c) ==
    PopOld(RateAppend(RateQueue(c), now), now - RateWindowSeconds)

\* the calls of the last RateWindowSeconds recorded for a connection, as seen
\* at time t (what the deque would hold without a maximum length)
RateLog(c, t) ==
    IF c \in DOMAIN rate_log
    THEN SelectSeq(rate_log[c], LAMBDA x : x >= t - RateWindowSeconds)
    ELSE <<>>

\* what the previous check_rate_limit call for a connection returned (the
\* length of the deque it left, against the ceiling), kept with the record
\* of the call that follows it
RateHistory(c) ==
    IF c \notin DOMAIN message_rates THEN "first"
    ELSE IF Len(message_rates[c]) <= rate_limit_messages THEN "after_accepted"
    ELSE "after_rejected"

\* ConnectionManager.check_rate_limit
cm_check_rate_limit(c) ==
    /\ message_rates' = MapPut(message_rates, c, RateQueueAfter(c))
    /\ rate_log' = MapPut(rate_log, c, Append(RateLog(c, now), now))
    /\ Returned("rate", c, RateHistory(c),
                Len(RateQueueAfter(c)) <= rate_limit_messages)
    /\ UNCHANGED <<regVars, conn_meta, sid_to_connection, connections_per_ip,
                   total_connections, active_connections, max_connections,
                   connection_timeout, rate_limit_messages>>

\* seconds since the last activity of a registered connection
IdleSeconds(c) == now - conn_meta[c].last_activity

\* a variant of is_active that still counts a connection as active when it
\* has been idle for exactly the timeout
IsActiveAtTimeout(c) == now - conn_meta[c].last_activity <= connection_timeout

\* ConnectionInfo.is_active(connection_timeout)
is_active(c) == now - conn_meta[c].last_activity < connection_timeout

\* one sweep of _cleanup_inactive_connections (lines 354-361): the registry
\* after remove_connection has run for every connection of the set S
RECURSIVE RemovedAll(_, _)
RemovedAll(st, S) ==
    IF S = {} THEN st
    ELSE LET c == CHOOSE x \in S : \A y \in S : x <= y
         IN RemovedAll(Removed(st, c), S \ {c})

cleanup_inactive_connections ==
    LET inactive_connections == {c \in Registered : ~is_active(c)}
    IN /\ SetRegistry(RemovedAll(RegistryState, inactive_connections))
       /\ Returned("sweep", 0,
                   IF inactive_connections # {} THEN "cleaned" ELSE "none", TRUE)
       /\ UNCHANGED total_connections

(***************************************************************************)
(* BroadcastMessage                                                        *)
(***************************************************************************)
max_attempts == 3
delay == 1
max_queue_size == 1000
max_broadcasts_per_minute == 100
RateDequeMaxLen == 60
RetentionSeconds == 3600

Range(s) == {s[i] : i \in DOMAIN s}

Min(a, b) == IF a <= b THEN a ELSE b

RECURSIVE Pow2(_)
Pow2(n) == IF n = 0 THEN 1 ELSE 2 * Pow2(n - 1)

\* the sequences that list every element of S exactly once
Perms(S) == {q \in [1..Cardinality(S) -> S] : \A x \in S : \E i \in DOMAIN q : q[i] = x}

\* BroadcastMessage.__init__
NewMessage(target_ids, priority) ==
    [target_ids   |-> target_ids,
     priority     |-> priority,
     created_at   |-> now,
     delivered_to |-> {},
     failed_to    |-> {},
     attempts     |-> 0,
     \* history: times popped by the loop, whether an emit ever succeeded,
     \* the number of pops made before its creation, and the number of its
     \* first pop among all pops (0: not popped yet)
     dispatched   |-> 0,
     any_ok       |-> FALSE,
     born         |-> 0,
     first_pop    |-> 0]

\* a variant of should_retry that looks at the deliveries only
ShouldRetryUndelivered(M) == M.delivered_to = {}

\* a variant of should_retry that allows one attempt more
ShouldRetryInclusive(M) == M.attempts <= max_attempts

\* a variant of get_retry_delay that grows by the initial delay per attempt
GetRetryDelayLinear(M) == delay * (M.attempts + 1)

\* BroadcastMessage.should_retry
should_retry(M) == M.attempts < max_attempts

\* BroadcastMessage.get_retry_delay
get_retry_delay(M) == delay * Pow2(M.attempts)

\* BroadcastMessage.is_complete
is_complete(M) ==
    Cardinality(M.delivered_to) >= Len(M.target_ids) \/ ~should_retry(M)

(***************************************************************************)
(* BroadcastService                                                        *)
(***************************************************************************)
BCInit ==
    /\ msgs = <<>>
    /\ high_priority_queue = <<>>
    /\ normal_priority_queue = <<>>
    /\ low_priority_queue = <<>>
    /\ active_broadcasts = {}
    /\ retry_timers = {}
    /\ broadcast_task = "none"
    /\ rate_queue_len = 0
    /\ total_broadcasts = 0
    /\ bc_last = [op |-> "none", empty |-> FALSE, returned |-> FALSE]
    /\ bc_pc = "idle"
    /\ cur_msg = 0
    /\ cur_idx = 0
    /\ cur_emit = "none"
    /\ pass_absent = FALSE
    /\ pass_raised = FALSE
    /\ waiting = <<>>

\* history: the number of pops made so far
SumDispatched(k) ==
    Cardinality(UNION {{i} \X (1..msgs[i].dispatched) : i \in 1..k})

Pops == SumDispatched(Len(msgs))

\* history: the sequence q without its first occurrence of m
Without(q, m) ==
    IF \E i \in DOMAIN q : q[i] = m
    THEN LET i == CHOOSE i \in DOMAIN q : q[i] = m /\ \A j \in 1..(i - 1) : q[j] # m
         IN SubSeq(q, 1, i - 1) \o SubSeq(q, i + 1, Len(q))
    ELSE q

\* a variant of the append that puts the message in twice
DequeAppendTwice(q, m) == Append(Append(q, m), m)

\* a variant of the append that puts the message at the front of the queue
DequeAppendLeft(q, m) == <<m>> \o q

\* deque(maxlen=max_queue_size).append
DequeAppend(q, m) ==
    IF Len(q) >= max_queue_size THEN Append(Tail(q), m) ELSE Append(q, m)

\* the queue _add_to_queue picks for a priority
QueueOf(priority) ==
    IF priority >= 3 THEN "high" ELSE IF priority >= 2 THEN "normal" ELSE "low"

\* BroadcastService._add_to_queue, for message number m with record M
add_to_queue(m, M) ==
    /\ high_priority_queue' =
         IF QueueOf(M.priority) = "high"
         THEN DequeAppend(high_priority_queue, m) ELSE high_priority_queue
    /\ normal_priority_queue' =
         IF QueueOf(M.priority) = "normal"
         THEN DequeAppend(normal_priority_queue, m) ELSE normal_priority_queue
    /\ low_priority_queue' =
         IF QueueOf(M.priority) = "low"
         THEN DequeAppend(low_priority_queue, m) ELSE low_priority_queue
    /\ active_broadcasts' = active_broadcasts \cup {m}
    /\ total_broadcasts' = total_broadcasts + 1
    /\ waiting' = IF logging THEN Append(waiting, m) ELSE waiting

\* a producer creates a message and enqueues it
Enqueue(target_ids, priority) ==
    LET m == Len(msgs) + 1
        M == NewMessage(target_ids, priority)
    IN /\ msgs' = Append(msgs, [M EXCEPT !.born = IF logging THEN Pops ELSE 0])
       /\ add_to_queue(m, M)
       /\ UNCHANGED <<retry_timers, broadcast_task, rate_queue_len, bc_pc, cur_msg,
                      cur_idx, cur_emit, pass_absent, pass_raised, logging>>
       /\ UNCHANGED <<cbVars, regVars, cmVars, ehVars, evVars, stVars>>

\* BroadcastService.broadcast_to_project (a call that finds no connection
\* returns before anything is created)
BroadcastToProject(p, priority) ==
    /\ get_project_connections(p) # {}
    /\ \E target_ids \in Perms(get_project_connections(p)) :
          Enqueue(target_ids, priority)

\* BroadcastService.broadcast_to_user
BroadcastToUser(u, priority) ==
    /\ get_user_connections(u) # {}
    /\ \E target_ids \in Perms(get_user_connections(u)) :
          Enqueue(target_ids, priority)

\* BroadcastService.broadcast_to_connections
BroadcastToConnections(connection_ids, priority) ==
    Enqueue(connection_ids, priority)

\* BroadcastService.broadcast_system_event
BroadcastSystemEvent(priority) ==
    /\ Registered # {}
    /\ \E target_ids \in Perms(Registered) :
          Enqueue(target_ids, priority)

\* the record of a broadcast_* call that returned a message id
BcReturned(op, empty) ==
    bc_last' = [op |-> op, empty |-> empty, returned |-> TRUE]

\* the return of lines 126, 164 and 228: nothing is created
ReturnsEarly ==
    /\ UNCHANGED <<msgs, high_priority_queue, normal_priority_queue,
                   low_priority_queue, active_broadcasts, retry_timers,
                   broadcast_task, rate_queue_len, bc_pc, cur_msg, cur_idx,
                   cur_emit, pass_absent, pass_raised, logging, waiting,
                   total_broadcasts>>
    /\ UNCHANGED <<cbVars, regVars, cmVars, ehVars, evVars, stVars>>

\* BroadcastService.broadcast_to_project, the whole call
broadcast_to_project(p, priority) ==
    IF get_project_connections(p) = {}
    THEN BcReturned("project", TRUE) /\ ReturnsEarly
    ELSE BroadcastToProject(p, priority) /\ BcReturned("project", FALSE)

\* BroadcastService.broadcast_to_user, the whole call
broadcast_to_user(u, priority) ==
    IF get_user_connections(u) = {}
    THEN BcReturned("user", TRUE) /\ ReturnsEarly
    ELSE BroadcastToUser(u, priority) /\ BcReturned("user", FALSE)

\* BroadcastService.broadcast_to_connections, the whole call: the list is
\* not looked at before the message is created
broadcast_to_connections(connection_ids, priority) ==
    /\ BroadcastToConnections(connection_ids, priority)
    /\ BcReturned("connection", connection_ids = <<>>)

\* BroadcastService.broadcast_system_event, the whole call
broadcast_system_event(priority) ==
    IF Registered = {}
    THEN BcReturned("system", TRUE) /\ ReturnsEarly
    ELSE BroadcastSystemEvent(priority) /\ BcReturned("system", FALSE)

\* BroadcastService.start
Start ==
    /\ broadcast_task = "none"
    /\ broadcast_task' = "running"
    /\ UNCHANGED <<msgs, high_priority_queue, normal_priority_queue,
                   low_priority_queue, active_broadcasts, retry_timers,
                   rate_queue_len, bc_pc, cur_msg, cur_idx, cur_emit, pass_absent,
                   pass_raised, logging, waiting, total_broadcasts, bc_last>>
    /\ UNCHANGED <<cbVars, regVars, cmVars, ehVars, evVars, stVars>>

\* BroadcastService._check_rate_limit: the length of the minute's deque after
\* the append (deque(maxlen=60)), and the verdict
RateLenAfter == Min(rate_queue_len + 1, RateDequeMaxLen)

check_rate_limit == RateLenAfter <= max_broadcasts_per_minute

\* WebSocketService.send_to_connection: whether the exception of a failing
\* sio.emit reaches the caller
send_to_connection_raises(emit) == FALSE

\* a variant of the loop over the targets without the test of line 297
SkipsDeliveredOff(M, i) ==
    LET t == M.target_ids
        S == {j \in i..Len(t) : t[j] \in Registered}
    IN IF S = {} THEN Len(t) + 1 ELSE CHOOSE j \in S : \A k \in S : j <= k

\* _process_broadcast, lines 295-307, from target index i on, up to the next
\* awaited sio.emit: the index of the target whose emit is awaited (Len + 1 when
\* the loop over the targets ends)
NextEmit(M, i) ==
    LET t == M.target_ids
        S == {j \in i..Len(t) : t[j] \notin M.delivered_to /\ t[j] \in Registered}
    IN IF S = {} THEN Len(t) + 1 ELSE CHOOSE j \in S : \A k \in S : j <= k

\* a variant of the absent targets that takes every unregistered connection
\* id, a target or not
AbsentAnywhere(M, i, stop) ==
    {c \in ConnIds : c \notin M.delivered_to /\ c \notin Registered}

\* the targets found absent (mark_failed, line 306) on the way from i to stop
AbsentBetween(M, i, stop) ==
    {M.target_ids[j] : j \in {k \in i..(stop - 1) :
        /\ M.target_ids[k] \notin M.delivered_to
        /\ M.target_ids[k] \notin Registered}}

\* lines 314-323: the end of a pass over message m, whose record is then M
FinishPass(m, M) ==
    LET M2 == [M EXCEPT !.attempts = @ + 1]
    IN /\ msgs' = [msgs EXCEPT ![m] = M2]
       /\ retry_timers' =
            IF ~is_complete(M2) /\ should_retry(M2)
            THEN retry_timers \cup {[msg |-> m, after |-> get_retry_delay(M2)]}
            ELSE retry_timers
       /\ bc_pc' = "idle"
       /\ cur_msg' = 0
       /\ cur_idx' = 0
       /\ cur_emit' = "none"
       /\ pass_absent' = FALSE
       /\ pass_raised' = FALSE

\* the loop over the targets of m (record M) goes on from index i; if it
\* reaches another sio.emit, that one will end as `emit` says
Continue(m, M, i, absentBefore, raisedBefore, emit) ==
    LET stop == NextEmit(M, i)
        gone == AbsentBetween(M, i, stop)
        M2 == [M EXCEPT !.failed_to = @ \cup gone]
    IN IF stop <= Len(M.target_ids)
       THEN /\ msgs' = [msgs EXCEPT ![m] = M2]
            /\ bc_pc' = "sending"
            /\ cur_msg' = m
            /\ cur_idx' = stop
            /\ cur_emit' = emit
            /\ pass_absent' = (absentBefore \/ gone # {})
            /\ pass_raised' = raisedBefore
            /\ UNCHANGED retry_timers
       ELSE FinishPass(m, M2)

\* a variant of the queue choice that looks at the low queue first
PopsLowestFirst ==
    IF low_priority_queue # <<>> THEN "low"
    ELSE IF normal_priority_queue # <<>> THEN "normal"
    ELSE IF high_priority_queue # <<>> THEN "high"
    ELSE "empty"

\* the queue _broadcast_loop pops from (lines 267-272)
PickQueue ==
    IF high_priority_queue # <<>> THEN "high"
    ELSE IF normal_priority_queue # <<>> THEN "normal"
    ELSE IF low_priority_queue # <<>> THEN "low"
    ELSE "empty"

QueueContent(name) ==
    CASE name = "high"   -> high_priority_queue
      [] name = "normal" -> normal_priority_queue
      [] name = "low"    -> low_priority_queue
      [] name = "empty"  -> <<>>

\* one iteration of _broadcast_loop that finds a message: popleft, then
\* _process_broadcast up to its first awaited sio.emit
LoopPop(emit) ==
    /\ broadcast_task = "running"
    /\ bc_pc = "idle"
    /\ PickQueue # "empty"
    /\ LET qn == PickQueue
           m == Head(QueueContent(qn))
           M == [msgs[m] EXCEPT
                   !.dispatched = @ + 1,
                   !.first_pop = IF logging /\ @ = 0 THEN Pops + 1 ELSE @]
       IN /\ high_priority_queue' =
               IF qn = "high" THEN Tail(high_priority_queue) ELSE high_priority_queue
          /\ normal_priority_queue' =
               IF qn = "normal" THEN Tail(normal_priority_queue)
               ELSE normal_priority_queue
          /\ low_priority_queue' =
               IF qn = "low" THEN Tail(low_priority_queue) ELSE low_priority_queue
          /\ waiting' = IF logging THEN Without(waiting, m) ELSE waiting
          /\ rate_queue_len' = RateLenAfter
          /\ IF ~check_rate_limit
             THEN \* line 292: the pass is dropped
                  /\ msgs' = [msgs EXCEPT ![m] = M]
                  /\ UNCHANGED <<retry_timers, bc_pc, cur_msg, cur_idx, cur_emit,
                                 pass_absent, pass_raised>>
             ELSE Continue(m, M, 1, FALSE, FALSE, emit)
    /\ UNCHANGED <<active_broadcasts, broadcast_task, logging, total_broadcasts,
                   bc_last>>
    /\ UNCHANGED <<cbVars, regVars, cmVars, ehVars, evVars, stVars>>

\* the awaited sio.emit of send_to_connection ends as cur_emit says ("ok": it
\* returned, "raise": it raised); _process_broadcast goes on to its next
\* awaited emit, which will end as `emit` says
SendReturn(emit) ==
    /\ bc_pc = "sending"
    /\ LET m == cur_msg
           c == msgs[m].target_ids[cur_idx]
           M == IF send_to_connection_raises(cur_emit)
                THEN [msgs[m] EXCEPT !.failed_to = @ \cup {c}]
                ELSE [msgs[m] EXCEPT !.delivered_to = @ \cup {c},
                                     !.any_ok = @ \/ (cur_emit = "ok")]
       IN Continue(m, M, cur_idx + 1, pass_absent,
                   pass_raised \/ cur_emit = "raise", emit)
    /\ UNCHANGED <<high_priority_queue, normal_priority_queue, low_priority_queue,
                   active_broadcasts, broadcast_task, rate_queue_len, logging, waiting,
                   total_broadcasts, bc_last>>
    /\ UNCHANGED <<cbVars, regVars, cmVars, ehVars, evVars, stVars>>

\* a variant of the handlers in which the exception ends the loop's task
TaskDiesOnFailure == "failed"

\* the loop's task after an exception raised in _process_broadcast outside
\* the loop over the targets: it is caught and logged at lines 327-329 (and
\* anything raised in the loop body itself at 279-281), and the loop goes on
TaskAfterFailure == "running"

\* one iteration of _broadcast_loop whose _process_broadcast raises before
\* its rate check (get_websocket_service, line 287): the message has been
\* popped and nothing else is done with it
LoopPopRaises ==
    /\ broadcast_task = "running"
    /\ bc_pc = "idle"
    /\ PickQueue # "empty"
    /\ LET qn == PickQueue
           m == Head(QueueContent(qn))
           M == [msgs[m] EXCEPT
                   !.dispatched = @ + 1,
                   !.first_pop = IF logging /\ @ = 0 THEN Pops + 1 ELSE @]
       IN /\ high_priority_queue' =
               IF qn = "high" THEN Tail(high_priority_queue) ELSE high_priority_queue
          /\ normal_priority_queue' =
               IF qn = "normal" THEN Tail(normal_priority_queue)
               ELSE normal_priority_queue
          /\ low_priority_queue' =
               IF qn = "low" THEN Tail(low_priority_queue) ELSE low_priority_queue
          /\ waiting' = IF logging THEN Without(waiting, m) ELSE waiting
          /\ msgs' = [msgs EXCEPT ![m] = M]
    /\ broadcast_task' = TaskAfterFailure
    /\ UNCHANGED <<active_broadcasts, retry_timers, rate_queue_len, bc_pc, cur_msg,
                   cur_idx, cur_emit, pass_absent, pass_raised, logging,
                   total_broadcasts, bc_last>>
    /\ UNCHANGED <<cbVars, regVars, cmVars, ehVars, evVars, stVars>>

\* BroadcastService.stop: the loop's task is cancelled at the await it is
\* suspended in (the idle sleep or an sio.emit) and leaves the loop (277-278)
Stop ==
    /\ broadcast_task = "running"
    /\ broadcast_task' = "cancelled"
    /\ bc_pc' = "idle"
    /\ cur_msg' = 0
    /\ cur_idx' = 0
    /\ cur_emit' = "none"
    /\ pass_absent' = FALSE
    /\ pass_raised' = FALSE
    /\ UNCHANGED <<msgs, high_priority_queue, normal_priority_queue,
                   low_priority_queue, active_broadcasts, retry_timers,
                   rate_queue_len, logging, waiting, total_broadcasts, bc_last>>
    /\ UNCHANGED <<cbVars, regVars, cmVars, ehVars, evVars, stVars>>

\* a variant of the reaper's test that does not ask for a complete message
OldEnough(m) == msgs[m].created_at < now - RetentionSeconds

\* the test of line 371, cutoff being utcnow() - 1 hour
Reapable(m) ==
    is_complete(msgs[m]) /\ msgs[m].created_at < now - RetentionSeconds

\* one sweep of _cleanup_completed_broadcasts (lines 368-375)
cleanup_completed_broadcasts ==
    LET completed_messages == {m \in active_broadcasts : Reapable(m)}
    IN /\ active_broadcasts' = active_broadcasts \ completed_messages
       /\ bc_last' = [op |-> "reap", empty |-> completed_messages = {},
                      returned |-> TRUE]
       /\ UNCHANGED <<msgs, high_priority_queue, normal_priority_queue,
                      low_priority_queue, retry_timers, broadcast_task,
                      rate_queue_len, bc_pc, cur_msg, cur_idx, cur_emit,
                      pass_absent, pass_raised, logging, waiting,
                      total_broadcasts>>
       /\ UNCHANGED <<cbVars, regVars, cmVars, ehVars, evVars, stVars>>

\* BroadcastService.get_broadcast_status: whether a status is returned
get_broadcast_status(m) == m \in active_broadcasts

\* BroadcastService._retry_broadcast once its sleep is over
RetryFire(t) ==
    /\ t \in retry_timers
    /\ retry_timers' = retry_timers \ {t}
    /\ IF ~is_complete(msgs[t.msg])
       THEN add_to_queue(t.msg, msgs[t.msg])
       ELSE UNCHANGED <<high_priority_queue, normal_priority_queue,
                        low_priority_queue, active_broadcasts, waiting,
                        total_broadcasts>>
    /\ UNCHANGED <<msgs, broadcast_task, rate_queue_len, bc_pc, cur_msg, cur_idx,
                   cur_emit, pass_absent, pass_raised, logging, bc_last>>
    /\ UNCHANGED <<cbVars, regVars, cmVars, ehVars, evVars, stVars>>

\* the registry changes while the broadcast engine runs
RegistryStep ==
    /\ \/ \E c \in ConnIds : AddConnection(c)
       \/ \E c \in ConnIds : RemoveConnection(c)
       \/ \E c \in ConnIds, u \in Users : AuthenticateConnection(c, u)
       \/ \E c \in ConnIds, p \in Projects : JoinProject(c, p)
    /\ UNCHANGED <<cbVars, cmVars, bcVars, ehVars, evVars, stVars>>

\* the default priority of broadcast_to_project / _user / _connections, and of
\* broadcast_system_event
DefaultPriority == 1
DefaultSystemPriority == 2

Priorities == {0, 1, 2, 3, 4}

EmitOutcomes == {"ok", "raise"}

TargetLists == UNION {[1..n -> ConnIds] : n \in 0..MaxTargets}

\* One broadcast message followed from its creation to its end, while
\* connections come and go.  Once the message exists its targets are
\* resolved, and of the registry the engine reads the set of registered
\* connections only (get_connection): the registry steps followed from then
\* on are the connects and the disconnects.
Init ==
    /\ CBInit
    /\ cb_name = "ai_service"
    /\ RegInit
    /\ CMInit
    /\ BCInit
    /\ EHInit
    /\ EVInit
    /\ STInit
    /\ logging = FALSE

Next ==
    \/ /\ RegistryStep
       /\ msgs # <<>> => Registered' # Registered
    \/ \E p \in Projects :
          msgs = <<>> /\ BroadcastToProject(p, DefaultPriority) /\ UNCHANGED bc_last
    \/ \E u \in Users :
          msgs = <<>> /\ BroadcastToUser(u, DefaultPriority) /\ UNCHANGED bc_last
    \/ \E ids \in TargetLists :
          /\ msgs = <<>>
          /\ BroadcastToConnections(ids, DefaultPriority)
          /\ UNCHANGED bc_last
    \/ msgs = <<>> /\ BroadcastSystemEvent(DefaultSystemPriority) /\ UNCHANGED bc_last
    \/ Start
    \/ \E emit \in EmitOutcomes : LoopPop(emit)
    \/ \E emit \in EmitOutcomes : SendReturn(emit)
    \/ \E t \in retry_timers : RetryFire(t)

Spec == Init /\ [][Next]_vars

\* Several messages of any priority, each sent to connection 1, which is
\* registered and stays.
PrioInit ==
    /\ CBInit
    /\ cb_name = "ai_service"
    /\ connections = [c \in {1} |-> [user_id |-> NoUser, project_ids |-> {}]]
    /\ user_connections = [u \in Users |-> {}]
    /\ project_connections = [p \in Projects |-> {}]
    /\ CMInit
    /\ BCInit
    /\ EHInit
    /\ EVInit
    /\ STInit
    /\ logging = TRUE

PrioNext ==
    \/ \E pr \in Priorities :
          /\ Len(msgs) < MaxPrioMessages
          /\ BroadcastToConnections(<<1>>, pr)
          /\ UNCHANGED bc_last
    \/ Start
    \/ \E emit \in EmitOutcomes : LoopPop(emit)
    \/ \E emit \in EmitOutcomes : SendReturn(emit)

SpecPrio == PrioInit /\ [][PrioNext]_vars

\* The four producers called at any time with their default priority, with
\* any registry, while the loop runs; a few messages are created.
ProducersNext ==
    \/ RegistryStep
    \/ \E p \in Projects :
          Len(msgs) < MaxProducerMsgs /\ broadcast_to_project(p, DefaultPriority)
    \/ \E u \in Users :
          Len(msgs) < MaxProducerMsgs /\ broadcast_to_user(u, DefaultPriority)
    \/ \E ids \in TargetLists :
          /\ Len(msgs) < MaxProducerMsgs
          /\ broadcast_to_connections(ids, DefaultPriority)
    \/ Len(msgs) < MaxProducerMsgs /\ broadcast_system_event(DefaultSystemPriority)
    \/ Start
    \/ LoopPop("ok")
    \/ SendReturn("ok")

SpecProducers == Init /\ [][ProducersNext]_vars

\* More messages than max_broadcasts_per_minute, each sent to connection 1,
\* which is registered and stays; a message is created when the queues are
\* empty, and all of them are popped within the same minute.
FloodNext ==
    \/ /\ PickQueue = "empty"
       /\ bc_pc = "idle"
       /\ Len(msgs) < max_broadcasts_per_minute + MaxExtraPops
       /\ broadcast_to_connections(<<1>>, DefaultPriority)
    \/ Start
    \/ LoopPop("ok")
    \/ SendReturn("ok")

SpecFlood == PrioInit /\ [][FloodNext]_vars

\* The loop with passes that raise and with stop(): a few messages of the
\* low and the normal tier, each sent to connection 1, which is registered and stays.  The
\* loop's task is scheduled again whenever it can take a step, and an
\* awaited emit ends.
LoopTurn ==
    \/ \E emit \in EmitOutcomes : LoopPop(emit)
    \/ LoopPopRaises
    \/ \E emit \in EmitOutcomes : SendReturn(emit)

LoopNext ==
    \/ \E pr \in {DefaultPriority, DefaultSystemPriority} :
          Len(msgs) < MaxLoopMsgs /\ broadcast_to_connections(<<1>>, pr)
    \/ Start
    \/ Stop
    \/ LoopTurn

SpecLoop == PrioInit /\ [][LoopNext]_vars /\ WF_vars(LoopTurn)

CBNext ==
    \/ CallEnter
    \/ CallSuccess
    \/ CallFailure
    \/ ResetCircuitBreaker
    \/ Tick

CBOnlyInit ==
    /\ CBInit
    /\ RegInit
    /\ CMInit
    /\ BCInit
    /\ EHInit
    /\ EVInit
    /\ STInit
    /\ logging = FALSE

SpecCB == CBOnlyInit /\ [][CBNext]_vars

(***************************************************************************)
(* The ConnectionManager on its own                                        *)
(***************************************************************************)
Sids == {"s1", "s2"}
IPs == {"ip1", "ip2"}
RegUsers == {"u1", "u2"}
RegProjects == {"p1", "p2"}

\* what a call on the registry leaves alone
CMFrame ==
    UNCHANGED <<cbVars, bcVars, ehVars, evVars, stVars, max_connections, connection_timeout,
                message_rates, rate_limit_messages, rate_log>>

CountersFrame ==
    UNCHANGED <<sid_to_connection, connections_per_ip, total_connections,
                active_connections>>

AddStep(ids, sids, ips, cap) ==
    \E c \in ids, sid \in sids, ip \in ips :
       /\ total_connections < cap
       /\ add_connection(c, sid, ip)
       /\ CMFrame

RemoveStep(ids) == \E c \in ids : remove_connection(c) /\ CMFrame

AuthenticateStep(ids) ==
    \E c \in ids, u \in DOMAIN user_connections :
       authenticate_connection(c, u) /\ CountersFrame /\ CMFrame

JoinStep(ids) ==
    \E c \in ids, p \in DOMAIN project_connections :
       join_project(c, p) /\ CountersFrame /\ CMFrame

LeaveStep(ids) ==
    \E c \in ids, p \in DOMAIN project_connections :
       leave_project(c, p) /\ CountersFrame /\ CMFrame

SweepStep == cleanup_inactive_connections /\ CMFrame

\* the clock advances by `seconds`, at most `ticks` times
ClockStep(seconds, ticks) ==
    /\ now < seconds * ticks
    /\ now' = now + seconds
    /\ UNCHANGED <<cb_name, cb_state, failure_count, success_count,
                   last_failure_time, cb_pc, cb_last, consec_failures, ho_successes,
                   ho_ok_total>>
    /\ UNCHANGED <<regVars, cmVars, bcVars, ehVars, evVars, stVars>>

\* every operation of the registry, on a few connection ids, session
\* references and users, with one room and one address; the clock can jump
\* by the idle timeout
RegInit2 ==
    /\ CBInit
    /\ cb_name = "ai_service"
    /\ connections = <<>>
    /\ user_connections = [u \in RegUsers |-> {}]
    /\ project_connections = [p \in Projects |-> {}]
    /\ CMInit
    /\ BCInit
    /\ EHInit
    /\ EVInit
    /\ STInit
    /\ logging = FALSE

RegNext ==
    \/ AddStep(ConnIds, Sids, {"ip1"}, MaxAdds)
    \/ RemoveStep(ConnIds)
    \/ AuthenticateStep(ConnIds)
    \/ JoinStep(ConnIds)
    \/ LeaveStep(ConnIds)
    \/ SweepStep
    \/ ClockStep(DefaultConnectionTimeout, MaxIdleJumps)

SpecReg == RegInit2 /\ [][RegNext]_vars

\* add and remove only, up to the ceilings.  max_connections is small, or one
\* more than the per-address ceiling.  Connection ids are opaque to
\* the registry, so the connections are numbered 1..n in the order of their
\* registration: a call names the last registered one or the next free id.
LimitChoices == {1, 2, 3, MaxConnectionsPerIP + 1}

LimitIds == {Cardinality(Registered), Cardinality(Registered) + 1} \ {0}

LimitInit ==
    /\ CBInit
    /\ cb_name = "ai_service"
    /\ RegInit
    /\ \E n \in LimitChoices :
          CMInitWith(n, DefaultConnectionTimeout, DefaultRateLimitMessages)
    /\ BCInit
    /\ EHInit
    /\ EVInit
    /\ STInit
    /\ logging = FALSE

LimitNext ==
    \/ AddStep(LimitIds, {"s1"}, IPs, MaxLimitAdds)
    \/ RemoveStep(LimitIds)

SpecLimit == LimitInit /\ [][LimitNext]_vars

\* rooms: connections are registered under ids that are not in use, then
\* join and leave rooms and are removed
RoomsInit ==
    /\ CBInit
    /\ cb_name = "ai_service"
    /\ connections = <<>>
    /\ user_connections = [u \in Users |-> {}]
    /\ project_connections = [p \in RegProjects |-> {}]
    /\ CMInit
    /\ BCInit
    /\ EHInit
    /\ EVInit
    /\ STInit
    /\ logging = FALSE

RoomsNext ==
    \/ AddStep(ConnIds \ Registered, {"s1"}, {"ip1"}, MaxAdds)
    \/ RemoveStep(ConnIds)
    \/ JoinStep(ConnIds)
    \/ LeaveStep(ConnIds)

SpecRooms == RoomsInit /\ [][RoomsNext]_vars

\* check_rate_limit on its own: the ceiling is the default or the one the
\* test sets; two connections under the small ceiling, one under the default;
\* the clock advances by one rate window at a time
RateLimitChoices == {TestRateLimit, DefaultRateLimitMessages}

RateIds == IF rate_limit_messages = TestRateLimit THEN ConnIds ELSE {1}

RateStep(ids) ==
    \E c \in ids :
       /\ Len(RateLog(c, now)) <= rate_limit_messages + MaxExtraCalls
       /\ cm_check_rate_limit(c)
       /\ UNCHANGED <<cbVars, bcVars, ehVars, evVars, stVars>>

RateInit ==
    /\ CBInit
    /\ cb_name = "ai_service"
    /\ connections = <<>>
    /\ user_connections = [u \in Users |-> {}]
    /\ project_connections = [p \in Projects |-> {}]
    /\ \E limit \in RateLimitChoices :
          CMInitWith(DefaultMaxConnections, DefaultConnectionTimeout, limit)
    /\ BCInit
    /\ EHInit
    /\ EVInit
    /\ STInit
    /\ logging = FALSE

RateNext ==
    \/ RateStep(RateIds)
    \/ ClockStep(RateWindowSeconds, MaxRateTicks)

SpecRate == RateInit /\ [][RateNext]_vars

\* the idle sweep among adds of unregistered ids, each with the session
\* reference of its id, and the operations that record activity, with one
\* user, one room and one address; the clock
\* advances by one sweep interval at a time
SweepInit ==
    /\ CBInit
    /\ cb_name = "ai_service"
    /\ connections = <<>>
    /\ user_connections = [u \in Users |-> {}]
    /\ project_connections = [p \in Projects |-> {}]
    /\ CMInit
    /\ BCInit
    /\ EHInit
    /\ EVInit
    /\ STInit
    /\ logging = FALSE

\* the session reference a connection id is added with
SidOf(c) == IF c % 2 = 1 THEN "s1" ELSE "s2"

SweepNext ==
    \/ \E c \in ConnIds \ Registered : AddStep({c}, {SidOf(c)}, {"ip1"}, MaxAdds)
    \/ AuthenticateStep(ConnIds)
    \/ JoinStep(ConnIds)
    \/ SweepStep
    \/ ClockStep(CleanupIntervalSeconds, MaxSweepTicks)

SpecSweep == SweepInit /\ [][SweepNext]_vars

\* The reaper among messages that complete (sent to connection 1, which is
\* registered) and messages that do not (sent to connection 2, which is
\* not), while the clock advances by half the retention window.
ReapInit ==
    /\ CBInit
    /\ cb_name = "ai_service"
    /\ connections = [c \in {1} |-> [user_id |-> NoUser, project_ids |-> {}]]
    /\ user_connections = [u \in Users |-> {}]
    /\ project_connections = [p \in Projects |-> {}]
    /\ CMInit
    /\ BCInit
    /\ EHInit
    /\ EVInit
    /\ STInit
    /\ logging = FALSE

ReapNext ==
    \/ \E ids \in {<<1>>, <<2>>} :
          Len(msgs) < MaxReapMsgs /\ broadcast_to_connections(ids, DefaultPriority)
    \/ Start
    \/ LoopPop("ok")
    \/ SendReturn("ok")
    \/ \E t \in retry_timers : RetryFire(t)
    \/ cleanup_completed_broadcasts
    \/ ClockStep(ReapTickSeconds, MaxReapTicks)

SpecReap == ReapInit /\ [][ReapNext]_vars

\* The engine with everything that runs next to its loop: producers, the
\* retry tasks, the reaper, start() and stop().  A few messages of the low
\* and the normal tier are sent to connection 1, which is registered, or to
\* connection 2, which is not; the clock can jump past the retention window.
RetryNext ==
    \/ \E ids \in {<<1>>, <<2>>}, pr \in {DefaultPriority, DefaultSystemPriority} :
          Len(msgs) < MaxRetryMsgs /\ broadcast_to_connections(ids, pr)
    \/ Start
    \/ Stop
    \/ LoopPop("ok")
    \/ SendReturn("ok")
    \/ \E t \in retry_timers : RetryFire(t)
    \/ cleanup_completed_broadcasts
    \/ ClockStep(RetentionSeconds + 1, MaxRetryTicks)

SpecRetry == ReapInit /\ [][RetryNext]_vars

\* handle_error called again and again, more often than the history holds
\* records.  The first errors are of any category, with a recovery strategy
\* or a callback that raises or not; the later ones are validation errors
\* handled without failure.
ErrorCategories == {"websocket", "ai_service", "validation"}

ErrorOutcomes == {"clean", "recovery_raises", "callback_raises"}

EHNext ==
    \/ /\ eh_count < max_history_size + MaxExtraErrors
       /\ \E category \in ErrorCategories, service_name \in {"none", "ai_service"},
             outcome \in ErrorOutcomes :
             /\ eh_count >= MaxVariedErrors =>
                   (category = "validation" /\ service_name = "none"
                      /\ outcome = "clean")
             /\ handle_error(category, service_name, outcome)
    \/ \E call \in eh_pending : handle_error_resumes(call)

SpecEH == Init /\ [][EHNext]_vars

\* Any of the four breakers under call(), reset_circuit_breaker and
\* handle_error calls of the category whose strategy is the circuit breaker,
\* naming the breaker's service.  call() is synchronous: nothing
\* else runs between its gate and its _on_success or _on_failure.
BreakerNext ==
    \/ CallEnter
    \/ CallSuccess
    \/ CallFailure
    \/ ResetCircuitBreaker
    \/ Tick
    \/ /\ cb_pc = "idle"
       /\ eh_count < MaxBreakerErrors
       /\ failure_count < MaxFailureCount
       /\ handle_error("ai_service", cb_name, "clean")

SpecBreaker == CBOnlyInit /\ [][BreakerNext]_vars

\* Connections subscribe and unsubscribe, and events are routed.  The
\* subscriptions and the events are drawn from sets that hold, for each
\* field, a value that is not set, one that agrees and one that does not.
EventTypes == {"new_message", "typing_indicator"}

EventRooms == {"p1", "p2"}

EventUsers == {"u1", "u2"}

FilterKeys == {"status"}

FilterValues == {"open", "closed"}

Dicts(values) == UNION {[K -> values] : K \in SUBSET FilterKeys}

SubscriptionChoices ==
    [event_types : {{"new_message"}},
     project_ids : {{}, {"p1"}},
     user_id     : {NoneValue, "u1"},
     filters     : Dicts({"open"})]

EventChoices ==
    [event_type : EventTypes,
     project_id : EventRooms \cup {NoneValue},
     user_id    : EventUsers \cup {NoneValue},
     data       : Dicts(FilterValues)]

EventConnections == {"c1", "c2"}

EVNext ==
    \/ /\ SubscriptionCount < MaxSubscriptions
       /\ \E c \in EventConnections, s \in SubscriptionChoices : subscribe(c, s)
    \/ \E c \in EventConnections : unsubscribe(c)
    \/ \E event \in EventChoices : get_subscribers(event)

SpecEvents == Init /\ [][EVNext]_vars

\* Events are added to the history, more of them than it holds, and the
\* history is read with and without filters.  The first events added are of
\* either kind, the later ones of the first kind.
HistoryEventKinds ==
    {[event_type |-> "new_message", project_id |-> "p1"],
     [event_type |-> "typing_indicator", project_id |-> NoneValue]}

HistoryLimits == {0, 1, 2}

EventHistoryNext ==
    \/ /\ NextEventId <= event_max_history_size + MaxExtraEvents
       /\ \E k \in HistoryEventKinds :
             /\ NextEventId > MaxVariedEvents => k.event_type = "new_message"
             /\ add_to_history(k.event_type, k.project_id)
    \/ \E event_type \in {NoneValue, "new_message"}, project_id \in {NoneValue, "p1"},
          limit \in HistoryLimits :
          get_event_history(event_type, project_id, limit)

SpecEventHistory == Init /\ [][EventHistoryNext]_vars

\* The status service at work: components are marked, health checks pass,
\* metrics are collected, the status is broadcast, errors are handled, and
\* a connection registers and joins the room "system".
StatusConnIds == {1}

StatusInit ==
    /\ CBInit
    /\ cb_name = "ai_service"
    /\ connections = <<>>
    /\ user_connections = [u \in Users |-> {}]
    /\ project_connections = [p \in {"system"} |-> {}]
    /\ CMInit
    /\ BCInit
    /\ EHInit
    /\ EVInit
    /\ STInit
    /\ logging = FALSE

StatusNext ==
    \/ /\ \E c \in StatusConnIds :
             \/ AddConnection(c)
             \/ RemoveConnection(c)
             \/ JoinProject(c, "system")
       /\ UNCHANGED <<cbVars, cmVars, bcVars, ehVars, evVars, stVars>>
    \/ \E component \in {"redis", "ai_service"}, healthy \in BOOLEAN :
          MarkComponent(component, healthy) /\ Len(alerts') <= MaxAlerts
    \/ \E op \in {"periodic", "force"}, redis_healthy, websocket_healthy \in BOOLEAN :
          /\ perform_health_checks(op, redis_healthy, websocket_healthy)
          /\ Len(alerts') <= MaxAlerts
    \/ \E connection_count \in {0, ConnectionCountWarning + 1,
                               ConnectionCountCritical + 1} :
          collect_metrics(connection_count) /\ Len(alerts') <= MaxAlerts
    \/ Len(event_history) < MaxStatusBroadcasts /\ broadcast_status_update
    \/ /\ eh_count < MaxStatusErrors
       /\ \E category \in {"redis", "validation"} :
             handle_error(category, "none", "clean")

SpecStatus == StatusInit /\ [][StatusNext]_vars

(***************************************************************************)
(* Properties of the circuit breaker (checked under SpecCB)                *)
(***************************************************************************)
\* a step in which func returns or raises inside call()
CallReturns == cb_pc = "calling" /\ cb_pc' = "idle"

\* a step in which call() is entered
CallAttempt == cb_pc = "idle" /\ now' = now /\ cb_last' \in {"fast_fail", "invoke"}

C2_FailFastUntilCoolDown ==
    [][ (CallAttempt /\ cb_state = "open") =>
          IF last_failure_time # NoneTime
             /\ now - last_failure_time < recovery_timeout(cb_name)
          THEN /\ cb_last' = "fast_fail"
               /\ cb_pc' = "idle"
               /\ UNCHANGED <<cb_state, failure_count, success_count, last_failure_time>>
          ELSE /\ cb_last' = "invoke"
               /\ cb_pc' = "calling"
               /\ cb_state' = "half_open" ]_vars

C2_Witness ==
    /\ cb_state = "open"
    /\ cb_last = "fast_fail"
    /\ cb_pc = "idle"
    /\ now - last_failure_time = recovery_timeout(cb_name) - TickSeconds

\* C3 (as claimed): any failed call made while the breaker is half-open moves
\* it back to open, whatever number of successful calls preceded it.
C3_HalfOpenFailureReopens ==
    [][ (CallReturns /\ cb_state = "half_open" /\ cb_last' = "fail") =>
          cb_state' = "open" ]_vars

\* C4 (as claimed): half-open moves to closed only after SuccessThreshold
\* consecutive successful calls with no failed call in between, and then
\* failure_count is 0.
C4_ClosesAfterConsecutiveSuccesses ==
    [][ (CallReturns /\ cb_state = "half_open" /\ cb_state' = "closed") =>
          /\ ho_successes' >= SuccessThreshold
          /\ failure_count' = 0 ]_vars

PassEnds(m) == msgs'[m].attempts = msgs[m].attempts + 1

\* the step is the return of the awaited emit of message m
EmitReturns(m) ==
    /\ bc_pc = "sending"
    /\ cur_msg = m
    /\ bc_pc' # "sending" \/ cur_idx' # cur_idx

\* the step starts an awaited emit
EmitStarts == bc_pc' = "sending" /\ (bc_pc # "sending" \/ cur_idx' # cur_idx)

\* message m is neither queued, nor being processed, nor waiting for a retry
Quiescent(m) ==
    /\ m \notin Range(high_priority_queue)
    /\ m \notin Range(normal_priority_queue)
    /\ m \notin Range(low_priority_queue)
    /\ cur_msg # m
    /\ \A t \in retry_timers : t.msg # m

\* C6: when the first dispatch pass of a message ends, and in that pass no
\* target was found absent from the registry and no transport send failed,
\* then the delivered set equals the set of the targets, is_complete is true
\* and no retry is scheduled.
C6_CleanPassCompletes ==
    [][\A m \in DOMAIN msgs :
         ( /\ PassEnds(m)
           /\ msgs[m].attempts = 0
           /\ ~pass_raised
           /\ cur_emit # "raise"
           /\ msgs'[m].failed_to = {} )
         => /\ msgs'[m].delivered_to = Range(msgs[m].target_ids)
            /\ is_complete(msgs'[m])
            /\ \A t \in retry_timers' : t.msg # m]_vars

\* C7: a message with targets, none of whose sends ever succeeded, is
\* dispatched at most max_attempts times, and once it is at rest after a
\* dispatch it has been dispatched exactly max_attempts times, attempts is
\* max_attempts, is_complete is true, delivered is empty and failed equals
\* the target set.
C7_AllFailedExhausts ==
    \A m \in DOMAIN msgs :
        (msgs[m].target_ids # <<>> /\ ~msgs[m].any_ok)
        => /\ msgs[m].dispatched <= max_attempts
           /\ (Quiescent(m) /\ msgs[m].dispatched >= 1)
              => /\ msgs[m].dispatched = max_attempts
                 /\ msgs[m].attempts = max_attempts
                 /\ is_complete(msgs[m])
                 /\ msgs[m].delivered_to = {}
                 /\ msgs[m].failed_to = Range(msgs[m].target_ids)

\* C9: in every step of a dispatch pass, the only target that can join
\* delivered-to is the one whose transport send has just returned without
\* failing; a target whose send failed joins failed-to; and when the pass
\* ends every target is in delivered-to or in failed-to.
C9_FailedTargetsRecorded ==
    [][\A m \in DOMAIN msgs :
         LET c == msgs[m].target_ids[cur_idx]
         IN /\ msgs'[m].delivered_to \ msgs[m].delivered_to \subseteq
                 (IF EmitReturns(m) /\ cur_emit = "ok" THEN {c} ELSE {})
            /\ (EmitReturns(m) /\ cur_emit = "raise") => c \in msgs'[m].failed_to
            /\ PassEnds(m) =>
                 Range(msgs[m].target_ids) \subseteq
                    msgs'[m].delivered_to \cup msgs'[m].failed_to]_vars

\* C10: delivered-to never loses an element, and no emit is started towards
\* a connection that is already in delivered-to.
C10_DeliveredKept ==
    [][/\ \A m \in DOMAIN msgs : msgs[m].delivered_to \subseteq msgs'[m].delivered_to
       /\ EmitStarts =>
            msgs'[cur_msg'].target_ids[cur_idx'] \notin msgs'[cur_msg'].delivered_to]_vars

\* a retry pass is sending to a target after it skipped an earlier target
\* that was delivered in a previous pass
C10_Witness ==
    /\ bc_pc = "sending"
    /\ msgs[cur_msg].attempts >= 1
    /\ \E j \in 1..(cur_idx - 1) :
          msgs[cur_msg].target_ids[j] \in msgs[cur_msg].delivered_to

(***************************************************************************)
(* Priority order of the dispatch loop (checked under SpecPrio)            *)
(***************************************************************************)
\* the tier of a priority: 3 for high (>= 3), 2 for normal (2), 1 for low
TierRank(priority) == IF priority >= 3 THEN 3 ELSE IF priority = 2 THEN 2 ELSE 1

\* the step pops message m from its queue
PopOf(m) == msgs'[m].dispatched = msgs[m].dispatched + 1

\* a low, a normal and a high message, in that order, all enqueued before
\* the loop popped anything
LowNormalHigh(ms) ==
    /\ Len(ms) >= 3
    /\ TierRank(ms[1].priority) = 1
    /\ TierRank(ms[2].priority) = 2
    /\ TierRank(ms[3].priority) = 3
    /\ ms[3].born = 0

\* C8: whenever a message is popped, every other message still waiting is
\* of a lower tier, or of the same tier and enqueued later; and a low, a
\* normal and a high message enqueued in that order are popped high first,
\* then normal, then low.
C8_HighestTierFirst ==
    [][/\ \A m \in DOMAIN msgs :
            PopOf(m) =>
              \A i \in DOMAIN waiting :
                 waiting[i] # m =>
                   \/ TierRank(msgs[waiting[i]].priority) < TierRank(msgs[m].priority)
                   \/ /\ TierRank(msgs[waiting[i]].priority) = TierRank(msgs[m].priority)
                      /\ \E k \in 1..(i - 1) : waiting[k] = m
       /\ LowNormalHigh(msgs') =>
            /\ msgs'[2].first_pop # 0 =>
                  (msgs'[3].first_pop # 0 /\ msgs'[3].first_pop < msgs'[2].first_pop)
            /\ msgs'[1].first_pop # 0 =>
                  (msgs'[2].first_pop # 0 /\ msgs'[2].first_pop < msgs'[1].first_pop)]_vars

\* the three messages of the scenario have been popped: high, normal, low
C8_Witness ==
    /\ LowNormalHigh(msgs)
    /\ msgs[3].first_pop = 1
    /\ msgs[2].first_pop = 2
    /\ msgs[1].first_pop = 3


(***************************************************************************)
(* Properties of the ConnectionManager                                     *)
(***************************************************************************)
\* the step is a call of add_connection / of the named operation
AddCall ==
    /\ cm_last'.op = "add"
    /\ cm_last' # cm_last \/ total_connections' # total_connections

Call(op) == cm_last'.op = op /\ cm_last' # cm_last

\* the registered connections whose address is ip
HeldBy(ip) == {c \in Registered : conn_meta[c].ip_address = ip}

\* C11 (SpecLimit): an add_connection issued while the registry holds
\* max_connections connections returns false and leaves the registry as it
\* was; the registry never holds more than max_connections connections.
C11_AddRefusedAtLimit ==
    [][/\ (AddCall /\ Cardinality(Registered) >= max_connections)
            => (~cm_last'.ok /\ connections' = connections)
       /\ Cardinality(DOMAIN connections') <= max_connections]_vars

\* an add was refused by the global limit alone
C11_Witness ==
    /\ cm_last.op = "add"
    /\ ~cm_last.ok
    /\ Cardinality(Registered) = max_connections
    /\ IpCount(connections_per_ip, cm_last.arg) < MaxConnectionsPerIP


\* the rooms whose index contains c
RoomsIndexing(c) == {p \in DOMAIN project_connections : c \in project_connections[p]}

\* C12 (SpecRooms): get_project_connections never returns a connection that
\* is absent from the registry, and the room set of every registered
\* connection is the set of the rooms whose index contains its id.
C12_RoomIndexMatchesMembership ==
    /\ \A p \in DOMAIN project_connections : get_project_connections(p) \subseteq Registered
    /\ \A c \in Registered : connections[c].project_ids = RoomsIndexing(c)

\* a connection has left one of the two rooms it was in, next to a
\* connection that is in a room
C12_Witness ==
    /\ cm_last.op = "leave"
    /\ cm_last.ok
    /\ cm_last.c \in Registered
    /\ Cardinality(connections[cm_last.c].project_ids) = 1
    /\ \E c \in Registered \ {cm_last.c} : connections[c].project_ids # {}


\* C13 (SpecReg): every connection id stored in a room index or in a user
\* index is a registered connection whose own room set contains that room,
\* respectively whose user id is that user.
C13_NoDanglingIndexEntry ==
    /\ \A p \in DOMAIN project_connections : \A c \in project_connections[p] :
          c \in Registered /\ p \in connections[c].project_ids
    /\ \A u \in DOMAIN user_connections : \A c \in user_connections[u] :
          c \in Registered /\ connections[c].user_id = u


\* C14 (SpecReg): the session reference of every registered connection maps
\* to that connection's own id, and every session-reference mapping points to
\* a registered connection.
C14_SidMapsToOwnConnection ==
    /\ \A c \in Registered :
          /\ conn_meta[c].sid \in DOMAIN sid_to_connection
          /\ sid_to_connection[conn_meta[c].sid] = c
    /\ \A sid \in DOMAIN sid_to_connection : sid_to_connection[sid] \in Registered


\* C15 (SpecReg): remove_connection(c) on an unknown id returns false and
\* changes nothing; on a registered id it returns true, and afterwards c is
\* in no room index and in no user index, its session reference is unmapped,
\* the counter of its address is one lower (no entry at zero), and the
\* records, memberships and counters of the other connections are unchanged.
C15_RemoveEffect ==
    [][Call("remove") =>
         LET c == cm_last'.c
         IN IF c \notin Registered
            THEN /\ ~cm_last'.ok
                 /\ UNCHANGED <<regVars, conn_meta, sid_to_connection,
                                connections_per_ip, total_connections,
                                active_connections>>
            ELSE LET ip == conn_meta[c].ip_address
                 IN /\ cm_last'.ok
                    /\ c \notin DOMAIN connections'
                    /\ \A p \in DOMAIN project_connections : c \notin project_connections'[p]
                    /\ \A u \in DOMAIN user_connections : c \notin user_connections'[u]
                    /\ conn_meta[c].sid \notin DOMAIN sid_to_connection'
                    /\ IpCount(connections_per_ip', ip) = IpCount(connections_per_ip, ip) - 1
                    /\ ip \in DOMAIN connections_per_ip' => connections_per_ip'[ip] > 0
                    /\ \A d \in Registered \ {c} :
                          /\ d \in DOMAIN connections'
                          /\ connections'[d] = connections[d]
                          /\ conn_meta'[d] = conn_meta[d]
                    /\ \A p \in DOMAIN project_connections :
                          project_connections'[p] \ {c} = project_connections[p] \ {c}
                    /\ \A u \in DOMAIN user_connections :
                          user_connections'[u] \ {c} = user_connections[u] \ {c}
                    /\ \A a \in DOMAIN connections_per_ip \ {ip} :
                          /\ a \in DOMAIN connections_per_ip'
                          /\ connections_per_ip'[a] = connections_per_ip[a]]_vars


\* C16 (SpecLimit): an add_connection that returns false leaves the
\* connection map, the session-reference map, the room and user indices, the
\* per-address counters and the total/active counters as they were; and
\* add_connection never succeeds for an address that already holds
\* MaxConnectionsPerIP registered connections.
C16_FailedAddMutatesNothing ==
    [][AddCall =>
         /\ ~cm_last'.ok =>
               UNCHANGED <<connections, conn_meta, sid_to_connection,
                           user_connections, project_connections,
                           connections_per_ip, total_connections,
                           active_connections>>
         /\ cm_last'.ok =>
               Cardinality(HeldBy(cm_last'.arg)) < MaxConnectionsPerIP]_vars

\* an add was refused for an address that holds MaxConnectionsPerIP
\* registered connections, below the global limit
C16_Witness ==
    /\ cm_last.op = "add"
    /\ ~cm_last.ok
    /\ Cardinality(Registered) < max_connections
    /\ Cardinality(HeldBy(cm_last.arg)) = MaxConnectionsPerIP


\* a step that is a call of check_rate_limit
RateCall == rate_log' # rate_log

\* C17 (SpecRate): for the ceiling 3 and for the default ceiling 100 alike, a
\* check_rate_limit call returns true exactly when it is one of the first
\* rate_limit_messages calls made for its connection within the 60 seconds
\* that end with it, and false when it is a later call of that window.
C17_CeilingPerWindow ==
    [][RateCall =>
         (cm_last'.ok <=>
             Len(rate_log'[cm_last'.c]) <= rate_limit_messages)]_vars

\* the last check_rate_limit call made for connection c, or -1
LastRateCall(c) ==
    IF c \in DOMAIN rate_log THEN rate_log[c][Len(rate_log[c])] ELSE -1

\* C18 (SpecRate): a check_rate_limit call made more than 60 seconds after
\* the previous call for the same connection returns true, however many
\* calls came before; and no timestamp older than 60 seconds is left in the
\* deque that is counted against the ceiling.
C18_QuietWindowResets ==
    [][RateCall =>
         LET c == cm_last'.c
         IN /\ (c \in DOMAIN rate_log
                  /\ now - LastRateCall(c) > RateWindowSeconds) => cm_last'.ok
            /\ \A i \in 1..Len(message_rates'[c]) :
                  now - message_rates'[c][i] <= RateWindowSeconds]_vars

\* a call was accepted although the call before it for the same connection,
\* more than 60 seconds earlier, had been rejected
C18_Witness ==
    /\ cm_last.op = "rate"
    /\ cm_last.ok
    /\ cm_last.arg = "after_rejected"
    /\ rate_log[cm_last.c] = <<now>>
    /\ message_rates[cm_last.c] = <<now>>


\* a step that is a call of authenticate_connection
AuthenticateCall ==
    /\ cm_last'.op = "authenticate"
    /\ cm_last' # cm_last \/ conn_meta' # conn_meta

\* C19 (SpecReg): authenticate(c, u) on a registered c returns true and
\* leaves c in the user index of u and of no other user, whatever user c had
\* before, with the record flagged authenticated under user id u; a repeated
\* identical call changes neither the indices nor the flags; on an unknown c
\* it returns false and changes nothing.
C19_AuthenticateRekeys ==
    [][AuthenticateCall =>
         LET c == cm_last'.c
             u == cm_last'.arg
         IN IF c \notin Registered
            THEN /\ ~cm_last'.ok
                 /\ UNCHANGED <<regVars, conn_meta, sid_to_connection>>
            ELSE /\ cm_last'.ok
                 /\ \A v \in DOMAIN user_connections' :
                       c \in user_connections'[v] <=> v = u
                 /\ connections'[c].user_id = u
                 /\ conn_meta'[c].is_authenticated
                 /\ cm_last = cm_last' =>
                       /\ UNCHANGED regVars
                       /\ conn_meta'[c].is_authenticated
                            = conn_meta[c].is_authenticated]_vars


\* a step that is one sweep of _cleanup_inactive_connections
SweepCall ==
    /\ cm_last'.op = "sweep"
    /\ cm_last' # cm_last \/ connections' # connections

\* what a sweep must leave when the connections of the set gone are the ones
\* it removes: they are unregistered and in no room or user index, their
\* session references are unmapped and the per-address counters and the
\* active count are lowered by their number; every other connection keeps
\* its record, its activity time and its index entries
SweptExactly(gone) ==
    /\ Registered' = Registered \ gone
    /\ \A c \in Registered' :
          connections'[c] = connections[c] /\ conn_meta'[c] = conn_meta[c]
    /\ \A p \in DOMAIN project_connections :
          project_connections'[p] = project_connections[p] \ gone
    /\ \A u \in DOMAIN user_connections :
          user_connections'[u] = user_connections[u] \ gone
    /\ DOMAIN sid_to_connection' =
          DOMAIN sid_to_connection \ {conn_meta[c].sid : c \in gone}
    /\ \A sid \in DOMAIN sid_to_connection' :
          sid_to_connection'[sid] = sid_to_connection[sid]
    /\ \A ip \in IPs :
          IpCount(connections_per_ip', ip) =
             IpCount(connections_per_ip, ip)
               - Cardinality({c \in gone : conn_meta[c].ip_address = ip})
    /\ active_connections' = active_connections - Cardinality(gone)

\* C20 as stated (SpecSweep): a sweep removes every connection whose time
\* since its last activity exceeds connection_timeout and no other one, with
\* the effects of remove.
C20_SweepRemovesOverTimeout ==
    [][SweepCall =>
         SweptExactly({c \in Registered :
                         IdleSeconds(c) > connection_timeout})]_vars

\* C20 (SpecSweep): a sweep removes every connection whose time since its
\* last activity is at least connection_timeout and no other one, with the
\* effects of remove on the room indices, the user index, the per-address
\* counter and the session mapping; a connection whose last activity is less
\* than connection_timeout before the sweep stays registered.
C20_SweepRemovesIdle ==
    [][SweepCall =>
         SweptExactly({c \in Registered :
                         IdleSeconds(c) >= connection_timeout})]_vars

\* a sweep has removed a connection and kept one that had recorded activity
\* since it was added, less than connection_timeout ago
C20_Witness ==
    /\ cm_last.op = "sweep"
    /\ cm_last.arg = "cleaned"
    /\ total_connections > Cardinality(Registered)
    /\ \E c \in Registered :
          /\ conn_meta[c].is_authenticated
          /\ connections[c].project_ids # {}
          /\ IdleSeconds(c) > 0
          /\ IdleSeconds(c) < connection_timeout


(***************************************************************************)
(* Properties of the broadcast engine, continued                           *)
(***************************************************************************)
\* C22 (Spec): in every reachable state the delivered-to set of each
\* broadcast message is a subset of its target ids, and so is its failed-to
\* set.
C22_TrackedWithinTargets ==
    \A m \in DOMAIN msgs :
        /\ msgs[m].delivered_to \subseteq Range(msgs[m].target_ids)
        /\ msgs[m].failed_to \subseteq Range(msgs[m].target_ids)

\* a message with two targets has one of them delivered and the other failed
C22_Witness ==
    \E m \in DOMAIN msgs :
        /\ msgs[m].delivered_to # {}
        /\ msgs[m].failed_to # {}
        /\ msgs[m].delivered_to \cup msgs[m].failed_to = Range(msgs[m].target_ids)
        /\ Cardinality(Range(msgs[m].target_ids)) = 2

\* C23 (Spec): delivered wins over failed: when a dispatch pass ends, and in
\* every state where a message is complete and at rest, no connection id is
\* in both delivered-to and failed-to.
C23_DeliveredWins ==
    [][\A m \in DOMAIN msgs :
         (PassEnds(m) \/ (is_complete(msgs'[m]) /\ cur_msg' # m))
         => msgs'[m].delivered_to \cap msgs'[m].failed_to = {}]_vars


ProducerCall == bc_last' # bc_last \/ Len(msgs') > Len(msgs)

\* C21 (SpecProducers): a call of broadcast_to_project, broadcast_to_user,
\* broadcast_to_connections or broadcast_system_event whose target list is
\* empty returns a message id and leaves the three priority queues, the
\* active-broadcasts map and total_broadcasts unchanged.
C21_EmptyTargetsNoEnqueue ==
    [][(ProducerCall /\ bc_last'.empty) =>
         /\ bc_last'.returned
         /\ UNCHANGED <<high_priority_queue, normal_priority_queue,
                        low_priority_queue, active_broadcasts,
                        total_broadcasts>>]_vars


\* C24 (SpecFlood): the dispatch loop enforces max_broadcasts_per_minute:
\* once more than that many messages have been popped within the minute, the
\* pass of each further popped message is dropped: no transport send is
\* started and its attempts, delivered-to and failed-to stay as they were.
C24_ExcessPassesDropped ==
    [][\A m \in DOMAIN msgs :
         (PopOf(m) /\ Pops + 1 > max_broadcasts_per_minute)
         => /\ bc_pc' = "idle"
            /\ msgs'[m].attempts = msgs[m].attempts
            /\ msgs'[m].delivered_to = msgs[m].delivered_to
            /\ msgs'[m].failed_to = msgs[m].failed_to]_vars


\* message m is in one of the three queues
Queued(m) ==
    \/ m \in Range(high_priority_queue)
    \/ m \in Range(normal_priority_queue)
    \/ m \in Range(low_priority_queue)

\* C25 (SpecLoop): the dispatch loop stops only by the cancellation of
\* stop(): a failure raised while a popped message is processed leaves the
\* loop's task running, and every message that is queued while the task runs
\* is popped later, unless stop() is called first.
C25_LoopSurvivesFailures ==
    /\ [][broadcast_task = "running" =>
            (broadcast_task' = "running"
               \/ (broadcast_task' = "cancelled" /\ UNCHANGED msgs))]_vars
    /\ \A m \in 1..MaxLoopMsgs :
          (m \in DOMAIN msgs /\ Queued(m) /\ broadcast_task = "running")
             ~> ((m \in DOMAIN msgs /\ msgs[m].dispatched >= 1)
                   \/ broadcast_task = "cancelled")

\* the pass over a message raised, and the message queued behind it in the
\* same tier was popped afterwards and sent
C25_Witness ==
    \E m1, m2 \in DOMAIN msgs :
        /\ msgs[m1].dispatched = 1
        /\ msgs[m1].attempts = 0
        /\ cur_msg # m1
        /\ msgs[m2].born = 0
        /\ msgs[m1].first_pop < msgs[m2].first_pop
        /\ msgs[m2].attempts = 1
        /\ msgs[m2].delivered_to = {1}
        /\ broadcast_task = "running"


\* a step that is one sweep of the reaper
ReapCall ==
    /\ bc_last'.op = "reap"
    /\ bc_last' # bc_last \/ active_broadcasts' # active_broadcasts

\* C28 (SpecReap): the reaper removes from active_broadcasts exactly the
\* messages that are complete and were created more than RetentionSeconds
\* ago, all of them at each sweep; nothing else removes a message; and an
\* incomplete message is always in active_broadcasts, so that
\* get_broadcast_status returns it.
C28_ReaperEvictsCompleteAndOld ==
    [][/\ ReapCall =>
            active_broadcasts' =
               {m \in active_broadcasts :
                   ~(is_complete(msgs[m])
                       /\ now - msgs[m].created_at > RetentionSeconds)}
       /\ ~ReapCall => active_broadcasts \subseteq active_broadcasts'
       /\ \A m \in DOMAIN msgs' :
             ~is_complete(msgs'[m]) => get_broadcast_status(m)']_vars

\* a sweep has removed a complete message and kept an incomplete one that
\* is as old
C28_Witness ==
    /\ bc_last.op = "reap"
    /\ ~bc_last.empty
    /\ \E m1, m2 \in DOMAIN msgs :
          /\ is_complete(msgs[m1])
          /\ ~get_broadcast_status(m1)
          /\ ~is_complete(msgs[m2])
          /\ msgs[m2].created_at <= msgs[m1].created_at
          /\ msgs[m2].attempts >= 1
          /\ get_broadcast_status(m2)


(***************************************************************************)
(* Properties of the ErrorHandler (checked under SpecEH)                   *)
(***************************************************************************)
\* a step in which a handle_error call ends
ErrorCallEnds == eh_last' # eh_last

\* a step in which handle_error stores its error
ErrorStored == eh_count' = eh_count + 1

\* the history holds at most max_history_size records, and they are the
\* most recently stored ones, in the order of their arrival
ErrorIds(h) == {h[i].id : i \in DOMAIN h}

MostRecentKept(h, n) ==
    /\ Len(h) <= max_history_size
    /\ Len(h) = IF n <= max_history_size THEN n ELSE max_history_size
    /\ \A i \in DOMAIN h : h[i].id = n - Len(h) + i

\* C29 as stated (SpecEH): every error passed to handle_error is in the
\* error history when the call returns, whether or not the recovery strategy
\* or a callback fails, and the history holds at most max_history_size
\* records, the most recently handled ones.
C29_HandledErrorInHistoryAtReturn ==
    [][/\ ErrorCallEnds =>
            /\ eh_last'.returned
            /\ eh_last'.id \in ErrorIds(error_history')
       /\ MostRecentKept(error_history', eh_count')]_vars

\* C29 (SpecEH): every error passed to handle_error is appended to the
\* error history before its recovery strategy and its callbacks run, and
\* the call returns whether or not they fail; when the call returns the
\* error is still in the history unless max_history_size or more errors
\* were stored after it while the call was suspended; and the history holds
\* at most max_history_size records, the most recently stored ones.
C29_HandledErrorRecorded ==
    [][/\ ErrorStored => error_history'[Len(error_history')].id = eh_count'
       /\ ErrorCallEnds =>
            /\ eh_last'.returned
            /\ eh_last'.id \in ErrorIds(error_history')
                 <=> eh_count' - eh_last'.id < max_history_size
       /\ MostRecentKept(error_history', eh_count')]_vars

\* a call whose callback raised was suspended and has returned while the
\* history holds max_history_size records, its error being one of them
C29_Witness ==
    /\ eh_last.outcome = "callback_raises"
    /\ eh_last.returned
    /\ eh_last.id \in ErrorIds(error_history)
    /\ eh_last.id < eh_count
    /\ Len(error_history) = max_history_size


(***************************************************************************)
(* Properties of the event router (checked under SpecEvents)               *)
(***************************************************************************)
\* a step in which get_subscribers is called
GetSubscribersCall == ev_last'.called /\ UNCHANGED subscriptions

\* the match as the documentation states it
StatedMatch(s, event) ==
    /\ event.event_type \in s.event_types
    /\ \/ event.project_id = NoneValue
       \/ s.project_ids = {}
       \/ event.project_id \in s.project_ids
    /\ \/ event.user_id = NoneValue
       \/ s.user_id = NoneValue
       \/ event.user_id = s.user_id
    /\ \A key \in DOMAIN s.filters :
          key \in DOMAIN event.data => event.data[key] = s.filters[key]

\* C30 (SpecEvents): a subscription matches an event exactly when the event
\* type is in its type set; the event has no room, or its room set is empty
\* or contains the event's room; the event has no user id, or it has no user
\* id, or the two are equal; and every filter key present in the payload has
\* the expected value.  So get_subscribers returns exactly the connections
\* that hold such a subscription.
C30_MatchesAsStated ==
    [][GetSubscribersCall =>
         \A i \in DOMAIN subscriptions :
            (subscriptions[i].connection_id \in Range(ev_last'.subscribers))
              <=> \E j \in DOMAIN subscriptions[i].subs :
                     StatedMatch(subscriptions[i].subs[j], ev_last'.event)]_vars


(***************************************************************************)
(* Properties of the event history (checked under SpecEventHistory)        *)
(***************************************************************************)
\* a step in which get_event_history is called
GetHistoryCall == evh_last'.called /\ UNCHANGED event_history

\* the events of the history that pass the filters of the last call
MatchingEvents ==
    {i \in DOMAIN event_history :
        /\ evh_last'.event_type # NoneValue =>
              event_history[i].event_type = evh_last'.event_type
        /\ evh_last'.project_id # NoneValue =>
              event_history[i].project_id = evh_last'.project_id}

\* C31 (SpecEventHistory): after any sequence of add_to_history calls the
\* event history holds at most 1000 events, the most recently added ones in
\* the order of their arrival; get_event_history returns matching events
\* only, the most recent first and none skipped, at most limit of them for
\* every limit >= 0, and leaves the history unchanged.
C31_HistoryBoundedAndReadNewestFirst ==
    [][/\ Len(event_history') <= event_max_history_size
       /\ \A i \in 1..(Len(event_history') - 1) :
             event_history'[i + 1].id = event_history'[i].id + 1
       /\ evh_last'.called => event_history' = event_history
       /\ GetHistoryCall =>
            LET r == evh_last'.returned
            IN /\ Len(r) <= evh_last'.limit
               /\ \A j \in DOMAIN r :
                     \E i \in MatchingEvents : event_history[i] = r[j]
               /\ \A j \in 1..(Len(r) - 1) : r[j].id > r[j + 1].id
               /\ \A i \in MatchingEvents :
                     (r # <<>> /\ event_history[i].id > r[Len(r)].id)
                        => \E j \in DOMAIN r : r[j] = event_history[i]]_vars


(***************************************************************************)
(* Properties of the status service (checked under SpecStatus)             *)
(***************************************************************************)
AllComponentsHealthy == \A c \in DOMAIN components : components[c]

\* an unresolved critical issue: nothing in the service resolves an alert
CriticalIssue == \E i \in DOMAIN alerts : alerts[i].severity = "critical"

\* C32 (SpecStatus): after a health-check pass, periodic or forced, the
\* reported overall health is true exactly when every declared component is
\* healthy and there is no unresolved critical issue; and marking a
\* component unhealthy makes the health summary report unhealthy with
\* healthy_components < total_components.
C32_HealthIsComponentsAndNoCritical ==
    /\ st_last.op \in {"periodic", "force"} =>
          (st_last.health.healthy <=> (AllComponentsHealthy /\ ~CriticalIssue))
    /\ (st_last.op = "mark" /\ ~st_last.healthy) =>
          /\ ~st_last.health.healthy
          /\ st_last.health.healthy_components < st_last.health.total_components

\* a step that is one tick of the status broadcast loop
StatusBroadcastTick == st_last'.op = "broadcast" /\ event_history' # event_history

\* C33 (SpecStatus): each status-broadcast tick hands one system-wide event
\* to the broadcast engine, whose targets are all the connections registered
\* at that moment, and the event carries the current health summary and the
\* most recent alerts.
C33_StatusTickBroadcastsToAll ==
    [][StatusBroadcastTick =>
         /\ Len(msgs') = Len(msgs) + 1
         /\ Range(msgs'[Len(msgs')].target_ids) = Registered
         /\ st_last'.health = get_health_summary(components, status_healthy, alerts)
         /\ st_last'.alerts = LastSlice(alerts, BroadcastAlerts)]_vars

\* ErrorHandler.get_error_statistics(hours): the number of errors of the
\* last hours, and their number by category
get_error_statistics(hours) ==
    LET recent == SelectSeq(error_history,
                            LAMBDA e : e.timestamp > now - hours * 3600)
    IN [total_errors |-> Len(recent),
        category_distribution |->
           [c \in {recent[i].category : i \in DOMAIN recent} |->
               Cardinality({i \in DOMAIN recent : recent[i].category = c})]]

\* C34 (SpecStatus): after handle_error has handled an error, the error is
\* counted in the statistics for its category and the alert list of the
\* status monitor is not empty.
C34_HandledErrorCountedAndAlerted ==
    [][ErrorCallEnds =>
         LET stats == get_error_statistics(24)
             e      == error_history'[Len(error_history')]
         IN /\ e.id = eh_last'.id
            /\ e.category \in DOMAIN stats.category_distribution'
            /\ stats.category_distribution'[e.category] >= 1
            /\ alerts' # <<>>]_vars

(***************************************************************************)
(* The retry path of the broadcast engine                                  *)
(***************************************************************************)
TierNames == {"high", "normal", "low"}

\* the retry task of timer t ends its sleep in this step
RetryEnds(t) == t \in retry_timers /\ t \notin retry_timers'

\* the queue q after an append at its back (a full deque lets go of its head)
AppendedAtBack(q, m) ==
    Append(IF Len(q) >= max_queue_size THEN Tail(q) ELSE q, m)

\* C35 (SpecRetry): a message whose retry delay ends re-enters only if it is
\* still incomplete, and then at the back of the queue of its own tier; the
\* queues are left at their head only, so the messages of that tier queued
\* before it are dispatched before it.
C35_RetryReentersAtBackIfIncomplete ==
    [][/\ \A t \in retry_timers :
             RetryEnds(t) =>
               \A name \in TierNames :
                  QueueContent(name)' =
                    IF ~is_complete(msgs[t.msg])
                       /\ name = QueueOf(msgs[t.msg].priority)
                    THEN AppendedAtBack(QueueContent(name), t.msg)
                    ELSE QueueContent(name)
       /\ \A name \in TierNames :
             \/ QueueContent(name)' = QueueContent(name)
             \/ /\ QueueContent(name) # <<>>
                /\ QueueContent(name)' = Tail(QueueContent(name))
             \/ \E m \in DOMAIN msgs' :
                   QueueContent(name)' = AppendedAtBack(QueueContent(name), m)]_vars

\* a message that has made an attempt stands behind one that has made none
C35_Witness ==
    \E name \in TierNames :
       LET q == QueueContent(name)
       IN /\ Len(q) >= 2
          /\ msgs[q[Len(q)]].attempts >= 1
          /\ msgs[q[1]].attempts = 0

\* the number of places message m is pending in: the three queues, the pass
\* in progress and the retry timers
Occurrences(m) ==
    Cardinality({<<name, i>> \in TierNames \X (1..Len(msgs)) :
                    i <= Len(QueueContent(name)) /\ QueueContent(name)[i] = m})
    + (IF cur_msg = m THEN 1 ELSE 0)
    + Cardinality({t \in retry_timers : t.msg = m})

\* C36 (SpecRetry): every message of the active-broadcasts map that is not
\* complete is in a priority queue, in the dispatch pass in progress or
\* waiting on a retry timer.
C36_IncompleteIsPending ==
    \A m \in active_broadcasts :
       ~is_complete(msgs[m]) => Occurrences(m) >= 1

\* C37 (SpecRetry): a message occurs at most once across the three queues,
\* the dispatch pass in progress and the pending retry timers, whatever the
\* interleaving of the loop, the retry tasks, the reaper and the producers.
C37_PendingAtMostOnce ==
    \A m \in DOMAIN msgs : Occurrences(m) <= 1

\* a message waits on its second retry timer while another one is queued
C37_Witness ==
    /\ \E t \in retry_timers : msgs[t.msg].attempts >= 2
    /\ PickQueue # "empty"

\* C38 (SpecRetry): the attempt counter of a message never exceeds
\* max_attempts, and a message that has made max_attempts attempts is in no
\* queue, in no dispatch pass and on no retry timer.
C38_AttemptsBounded ==
    \A m \in DOMAIN msgs :
       /\ msgs[m].attempts <= max_attempts
       /\ msgs[m].attempts = max_attempts => Occurrences(m) = 0

\* a message has used up its attempts without being delivered
C38_Witness ==
    \E m \in DOMAIN msgs :
       /\ msgs[m].attempts = max_attempts
       /\ msgs[m].delivered_to = {}
       /\ msgs[m].dispatched = max_attempts

(***************************************************************************)
(* The breaker's state against its failure count                           *)
(***************************************************************************)
\* C39 (SpecBreaker): after any sequence of call() outcomes, handle_error
\* invocations naming the breaker's service and resets, an open breaker has
\* failure_count >= failure_threshold and a closed one has failure_count <
\* failure_threshold.
C39_StateAgreesWithFailureCount ==
    /\ cb_state = "open" => failure_count >= failure_threshold(cb_name)
    /\ cb_state = "closed" => failure_count < failure_threshold(cb_name)

\* a breaker that is open after fewer failed calls than its threshold: the
\* handle_error calls naming its service made up the difference
C39_Witness ==
    /\ cb_state = "open"
    /\ cb_last = "fail"
    /\ failure_count = failure_threshold(cb_name)
    /\ consec_failures >= 1
    /\ consec_failures < failure_threshold(cb_name)
    /\ eh_count >= 1

(***************************************************************************)
(* The registry's counters                                                 *)
(***************************************************************************)
\* C40 (SpecReg): after any sequence of add, remove and idle-cleanup calls,
\* adds on a registered connection id included, active_connections is the
\* number of registered connections, and the counter of every address is the
\* number of registered connections from that address, with no entry for an
\* address that has none.
C40_CountersMatchRegistry ==
    /\ active_connections = Cardinality(Registered)
    /\ \A ip \in IPs :
          /\ IpCount(connections_per_ip, ip) = Cardinality(HeldBy(ip))
          /\ ip \in DOMAIN connections_per_ip => HeldBy(ip) # {}

==============================================================================
